---------------------------- MODULE Spec2Model ----------------------------
(***************************************************************************)
(* A model of the poster generator's interactive composition engine:       *)
(* CanvasManager (static/js/canvas-manager.js), the FrameSlider that       *)
(* drives its frame requests and the App handlers that drive its phase     *)
(* transitions.                                                            *)
(*                                                                         *)
(* Numbers.  Every length is an integer count of thirds of a pixel, so     *)
(* that the 2:3 overlay (width = height * 2/3) and its centring are exact; *)
(* Div raises an error when a division the code performs is not exact in   *)
(* these units.  Arithmetic is that of the rationals: the rounding of      *)
(* JavaScript's doubles is not modelled.  Normalised (0..1) values are     *)
(* rationals <<numerator, denominator>> in lowest terms.  The zoom factor  *)
(* is held in hundredths (1.0 is 100).                                     *)
(*                                                                         *)
(* Objects.  A fabric object is a record of the heap, reached through its  *)
(* identity (a positive integer; 0 is null).  "new" takes an identity no   *)
(* object of the heap has.  Between steps the objects on the canvas are    *)
(* named by their place in the canvas's stacking order, and every          *)
(* reference the engine holds is to an object on the canvas.               *)
(*                                                                         *)
(* Callers.  The media browser and the form controls are callers of the    *)
(* engine's public operations; an action is one such call.                 *)
(*                                                                         *)
(* Steps.  JavaScript runs one callback to completion: an action is a UI   *)
(* event handler or the completion callback of an image load, together     *)
(* with the promise continuations that completion releases.                *)
(***************************************************************************)
EXTENDS Integers, Sequences, FiniteSets, Bags, TLC

VARIABLES cm, fs, fetches, installs, app, lastOp

vars == <<cm, fs, fetches, installs, app, lastOp>>

---------------------------------------------------------------------------
(* Bounds of the model *)

\* image loads that may be in flight together: those of setFrame and those of
\* _setImageBackground, on which a confirmBackground call is suspended
MaxLoads == 2
\* text and line elements that may be on the canvas together
MaxElements == 2
\* objects that may be on the canvas together
MaxObjects == 7
\* the requests for a poster that are made
MaxRequests == 2

---------------------------------------------------------------------------
(* Program constants, in pixels as the source writes them *)

imageModeWidth == 800
imageModeHeight == 500
posterModeWidth == 400
posterModeHeight == 600
baseOverlayHeight == 400
minZoomPercent == 50
maxZoomPercent == 150

Px(n) == 3 * n

---------------------------------------------------------------------------
(* Inputs *)

\* the media provider's videos and the size of their preview frames
Videos == {"wide", "full", "tall"}
\* videos whose preview frame comes with a width or a height of zero
DegenerateVideos == {"thin", "flat"}
FrameWidth(v) ==
    CASE v = "wide" -> 1920 [] v = "full" -> 1600 [] v = "tall" -> 900
      [] v = "thin" -> 0 [] v = "flat" -> 1920
FrameHeight(v) ==
    CASE v = "wide" -> 800 [] v = "full" -> 1000 [] v = "tall" -> 1500
      [] v = "thin" -> 800 [] v = "flat" -> 0

Timestamps == {0, 1}
\* values of the zoom slider, in percent, some outside [50,150]
ZoomLevels == {40, 50, 100, 150, 160}
\* positions (left, top) a drag puts the overlay at before the handler runs
DragTargets == {<<Px(0 - 50), Px(0 - 50)>>, <<Px(300), Px(60)>>, <<Px(900), Px(700)>>}
Colors == {"#000000", "#ff0000"}
GradientPairs == {<<"#000000", "#333333">>, <<"#ff0000", "#0000ff">>}
Directions == {"vertical", "horizontal"}
BlurAmounts == {0, 10}
Modes == {"image", "color", "gradient"}

---------------------------------------------------------------------------
(* Arithmetic *)

Max(a, b) == IF a >= b THEN a ELSE b
Min(a, b) == IF a <= b THEN a ELSE b

\* a / b where the code's quotient is a whole number of units
Div(a, b) == CHOOSE q \in {a \div b} : q * b = a

RECURSIVE Gcd(_, _)
Gcd(a, b) == IF b = 0 THEN a ELSE Gcd(b, a % b)

Abs(a) == IF a < 0 THEN 0 - a ELSE a

\* the results of a division by zero: 0/0, and n/0 for n > 0 and for n < 0
NaN == <<0, 0>>
PlusInfinity == <<1, 0>>
MinusInfinity == <<0 - 1, 0>>

\* the quotient n / d of JavaScript: a rational in lowest terms with a
\* positive denominator, or for d = 0 one of the three values above
Rat(n, d) ==
    IF n = 0 /\ d = 0 THEN NaN
    ELSE
    LET g == Gcd(Abs(n), Abs(d))
        sgn == IF d < 0 THEN 0 - 1 ELSE 1
    IN  <<sgn * (n \div g), sgn * (d \div g)>>

RLe(p, q) == p[1] * q[2] <= q[1] * p[2]
\* Math.max and Math.min: NaN if an argument is NaN
RMax(p, q) == IF p = NaN \/ q = NaN THEN NaN ELSE IF RLe(q, p) THEN p ELSE q
RMin(p, q) == IF p = NaN \/ q = NaN THEN NaN ELSE IF RLe(p, q) THEN p ELSE q
RZero == <<0, 1>>
ROne == <<1, 1>>
\* Math.max(0, Math.min(1, x))
Clamp01(p) == RMax(RZero, RMin(ROne, p))

---------------------------------------------------------------------------
(* Option values: <<>> is null, <<x>> holds x *)

None == <<>>
Some(x) == <<x>>
Get(o) == o[1]

---------------------------------------------------------------------------
(* The fabric canvas: its object list (back to front) and active object *)

Range(seq) == {seq[i] : i \in 1..Len(seq)}

Without(seq, id) == SelectSeq(seq, LAMBDA x : x # id)

\* fabric.Canvas.add: the object goes on top
canvasAdd(s, id) == [s EXCEPT !.objects = Append(@, id)]

\* fabric.Canvas.remove: a removed object is no longer the active object
\* fabric.Canvas.remove: taking the active object off the canvas fires
\* selection:cleared, on which the editor drops its references (lines 65, 96-98)
canvasRemove(s, id) ==
    [s EXCEPT !.objects = Without(@, id),
              !.active = IF @ = id THEN 0 ELSE @,
              !.activeText = IF s.active = id THEN 0 ELSE @,
              !.activeLine = IF s.active = id THEN 0 ELSE @]

\* fabric.Canvas.setActiveObject and a click on a selectable object: the
\* selection event reaches the editor as textSelected or lineSelected, and as
\* nothing at all for an object of another type (_onSelectionChange)
setActiveObject(s, id) ==
    LET type == s.heap[id].type
    IN  [s EXCEPT !.active = id,
                  !.activeText = IF type \in {"i-text", "textbox"} THEN id
                                 ELSE IF type = "line" THEN 0 ELSE @,
                  !.activeLine = IF type = "line" THEN id
                                 ELSE IF type \in {"i-text", "textbox"} THEN 0 ELSE @]

\* fabric.Canvas.sendToBack / bringToFront: an object not on the canvas is left alone
sendToBack(s, id) ==
    IF id \in Range(s.objects)
    THEN [s EXCEPT !.objects = <<id>> \o Without(@, id)]
    ELSE s

bringToFront(s, id) ==
    IF id \in Range(s.objects)
    THEN [s EXCEPT !.objects = Append(Without(@, id), id)]
    ELSE s

\* the identity "new" gives an object: one that no live reference holds
IdSpace == 1..(MaxObjects + 8)
NewId(s) == CHOOSE i \in IdSpace \ DOMAIN s.heap :
                \A j \in IdSpace \ DOMAIN s.heap : i <= j

\* the state between two steps: each object is named by its place on the canvas
Index(seq, x) == CHOOSE i \in 1..Len(seq) : seq[i] = x
Renumbered(s, id) == IF id = 0 THEN 0 ELSE Index(s.objects, id)
\* a reference of the editor; one to an object that is no longer on the
\* canvas is not followed any further
RenumberedRef(s, id) ==
    IF id \in Range(s.objects) THEN Index(s.objects, id) ELSE 0
Collect(s) ==
    [s EXCEPT !.heap = [i \in 1..Len(s.objects) |-> s.heap[s.objects[i]]],
              !.objects = [i \in 1..Len(s.objects) |-> i],
              !.frameImage = Renumbered(s, @),
              !.selectionOverlay = Renumbered(s, @),
              !.active = Renumbered(s, @),
              !.activeText = RenumberedRef(s, @),
              !.activeLine = RenumberedRef(s, @),
              !.darkMaskRects = [i \in 1..Len(s.darkMaskRects) |-> Renumbered(s, s.darkMaskRects[i])]]

Rect(l, t, w, h) ==
    [type |-> "rect", left |-> l, top |-> t, width |-> w, height |-> h,
     isOverlay |-> FALSE, isMask |-> FALSE]

IsElement(s, id) == s.heap[id].type \in {"textbox", "i-text", "line"}
Elements(s) == SelectSeq(s.objects, LAMBDA id : IsElement(s, id))

\* filenames the user types: none, blank, and two that name a file
Filenames == {<<>>, <<" ">>, <<"p">>, <<" ", "p", " ">>}

\* what the editors offer and where the user drops an element
Alignments == {"left", "center", "right"}
LineWidths == {2, 4}
ElementTargets == {<<Px(300), Px(200)>>}

---------------------------------------------------------------------------
(* CanvasManager: construction *)

InitCanvasManager ==
    [canvasWidth |-> Px(imageModeWidth),
     canvasHeight |-> Px(imageModeHeight),
     overlayZoom |-> 100,
     objects |-> <<>>,
     heap |-> <<>>,
     active |-> 0,
     activeText |-> 0,
     activeLine |-> 0,
     canvasBackground |-> <<"color", "#1a1a2e">>,
     frameImage |-> 0,
     selectionOverlay |-> 0,
     darkMaskRects |-> <<>>,
     frameDisplayInfo |-> None,
     backgroundMode |-> "image",
     backgroundColor |-> "#000000",
     gradientColors |-> <<"#000000", "#333333">>,
     gradientDirection |-> "vertical",
     blurAmount |-> 0,
     workflowPhase |-> "background",
     lockedBackgroundData |-> None,
     video |-> None,
     currentTimestamp |-> 0]

---------------------------------------------------------------------------
(* CanvasManager: overlay, mask and stacking order *)

overlayHeightAt(zoom) == Div(Px(baseOverlayHeight) * zoom, 100)
overlayWidthOf(height) == Div(height * 2, 3)

\* a plausible slip: the new overlay is put where the old one had been dragged
_createSelectionOverlay_KeepsPosition(s) ==
    LET s1 == IF s.selectionOverlay # 0
              THEN canvasRemove(s, s.selectionOverlay) ELSE s
        overlayHeight == overlayHeightAt(s.overlayZoom)
        overlayWidth == overlayWidthOf(overlayHeight)
        overlayLeft == IF s.selectionOverlay # 0
                       THEN s.heap[s.selectionOverlay].left
                       ELSE Div(s.canvasWidth - overlayWidth, 2)
        overlayTop == IF s.selectionOverlay # 0
                      THEN s.heap[s.selectionOverlay].top
                      ELSE Div(s.canvasHeight - overlayHeight, 2)
        id == NewId(s1)
        rect == [Rect(overlayLeft, overlayTop, overlayWidth, overlayHeight)
                    EXCEPT !.isOverlay = TRUE]
    IN  canvasAdd([s1 EXCEPT !.heap = (id :> rect) @@ @,
                             !.selectionOverlay = id], id)

_createSelectionOverlay(s) ==
    LET s1 == IF s.selectionOverlay # 0
              THEN canvasRemove(s, s.selectionOverlay) ELSE s
        overlayHeight == overlayHeightAt(s.overlayZoom)
        overlayWidth == overlayWidthOf(overlayHeight)
        overlayLeft == Div(s.canvasWidth - overlayWidth, 2)
        overlayTop == Div(s.canvasHeight - overlayHeight, 2)
        id == NewId(s1)
        rect == [Rect(overlayLeft, overlayTop, overlayWidth, overlayHeight)
                    EXCEPT !.isOverlay = TRUE]
    IN  canvasAdd([s1 EXCEPT !.heap = (id :> rect) @@ @,
                             !.selectionOverlay = id], id)

_reorderObjects(s) ==
    LET s1 == IF s.frameImage # 0 THEN sendToBack(s, s.frameImage) ELSE s
        RECURSIVE Front(_, _)
        Front(st, ids) ==
            IF ids = <<>> THEN st
            ELSE Front(bringToFront(st, Head(ids)), Tail(ids))
        s2 == Front(s1, s1.darkMaskRects)
        s3 == IF s2.selectionOverlay # 0
              THEN bringToFront(s2, s2.selectionOverlay) ELSE s2
        moved == SelectSeq(s3.objects,
                     LAMBDA id : s3.heap[id].type \in {"i-text", "line"})
    IN  Front(s3, moved)

_createDarkMask(s) ==
    LET s1 == [s EXCEPT !.objects =
                   SelectSeq(@, LAMBDA id : id \notin Range(s.darkMaskRects)),
                        !.darkMaskRects = <<>>]
    IN  IF s1.selectionOverlay = 0 THEN s1
        ELSE
        LET overlay == s1.heap[s1.selectionOverlay]
            topRect == Rect(0, 0, s1.canvasWidth, overlay.top)
            bottomRect == Rect(0, overlay.top + overlay.height, s1.canvasWidth,
                               s1.canvasHeight - (overlay.top + overlay.height))
            leftRect == Rect(0, overlay.top, overlay.left, overlay.height)
            rightRect == Rect(overlay.left + overlay.width, overlay.top,
                              s1.canvasWidth - (overlay.left + overlay.width),
                              overlay.height)
            rects == <<topRect, bottomRect, leftRect, rightRect>>
            i1 == NewId(s1)
            h1 == (i1 :> [rects[1] EXCEPT !.isMask = TRUE]) @@ s1.heap
            i2 == NewId([s1 EXCEPT !.heap = h1])
            h2 == (i2 :> [rects[2] EXCEPT !.isMask = TRUE]) @@ h1
            i3 == NewId([s1 EXCEPT !.heap = h2])
            h3 == (i3 :> [rects[3] EXCEPT !.isMask = TRUE]) @@ h2
            i4 == NewId([s1 EXCEPT !.heap = h3])
            h4 == (i4 :> [rects[4] EXCEPT !.isMask = TRUE]) @@ h3
        IN  _reorderObjects(
                [s1 EXCEPT !.heap = h4,
                           !.darkMaskRects = <<i1, i2, i3, i4>>,
                           !.objects = @ \o <<i1, i2, i3, i4>>])

_updateDarkMask(s) ==
    IF s.selectionOverlay = 0 \/ Len(s.darkMaskRects) # 4 THEN s
    ELSE
    LET overlay == s.heap[s.selectionOverlay]
        m == s.darkMaskRects
    IN  [s EXCEPT
            !.heap[m[1]].height = Max(0, overlay.top),
            !.heap[m[2]].top = overlay.top + overlay.height,
            !.heap[m[2]].height =
                Max(0, s.canvasHeight - (overlay.top + overlay.height)),
            !.heap[m[3]].top = overlay.top,
            !.heap[m[3]].width = Max(0, overlay.left),
            !.heap[m[3]].height = overlay.height,
            !.heap[m[4]].left = overlay.left + overlay.width,
            !.heap[m[4]].top = overlay.top,
            !.heap[m[4]].width =
                Max(0, s.canvasWidth - (overlay.left + overlay.width)),
            !.heap[m[4]].height = overlay.height]

\* a plausible slip: only the left and top bounds are enforced
_constrainOverlay_LeftTopOnly(s) ==
    IF s.selectionOverlay = 0 \/ s.frameDisplayInfo = None THEN s
    ELSE
    LET overlay == s.heap[s.selectionOverlay]
        frame == Get(s.frameDisplayInfo)
    IN  [s EXCEPT !.heap[s.selectionOverlay].left =
                      IF overlay.left < frame.displayLeft
                      THEN frame.displayLeft ELSE overlay.left,
                  !.heap[s.selectionOverlay].top =
                      IF overlay.top < frame.displayTop
                      THEN frame.displayTop ELSE overlay.top]

_constrainOverlay(s) ==
    IF s.selectionOverlay = 0 \/ s.frameDisplayInfo = None THEN s
    ELSE
    LET overlay == s.heap[s.selectionOverlay]
        frame == Get(s.frameDisplayInfo)
        left1 == IF overlay.left < frame.displayLeft
                 THEN frame.displayLeft ELSE overlay.left
        newLeft == IF left1 + overlay.width > frame.displayLeft + frame.displayWidth
                   THEN frame.displayLeft + frame.displayWidth - overlay.width
                   ELSE left1
        top1 == IF overlay.top < frame.displayTop
                THEN frame.displayTop ELSE overlay.top
        newTop == IF top1 + overlay.height > frame.displayTop + frame.displayHeight
                  THEN frame.displayTop + frame.displayHeight - overlay.height
                  ELSE top1
    IN  [s EXCEPT !.heap[s.selectionOverlay].left = newLeft,
                  !.heap[s.selectionOverlay].top = newTop]

\* a plausible slip: the upper bound of the clamp is left out
clampZoom_LowerOnly(zoomLevel) == Max(minZoomPercent, zoomLevel)

\* Math.max(0.5, Math.min(1.5, zoomLevel / 100)), in hundredths
clampZoom(zoomLevel) == Max(minZoomPercent, Min(maxZoomPercent, zoomLevel))

\* a plausible slip: the resized overlay keeps its upper left corner
setZoom_KeepsCorner(s, zoomLevel) ==
    LET s1 == [s EXCEPT !.overlayZoom = clampZoom(zoomLevel)]
    IN  IF s1.selectionOverlay # 0 /\ s1.frameDisplayInfo # None
        THEN
        LET newHeight == overlayHeightAt(s1.overlayZoom)
        IN  _updateDarkMask(_constrainOverlay(
                [s1 EXCEPT !.heap[s1.selectionOverlay].width = overlayWidthOf(newHeight),
                           !.heap[s1.selectionOverlay].height = newHeight]))
        ELSE s1

setZoom(s, zoomLevel) ==
    LET s1 == [s EXCEPT !.overlayZoom = clampZoom(zoomLevel)]
    IN  IF s1.selectionOverlay # 0 /\ s1.frameDisplayInfo # None
        THEN
        LET old == s1.heap[s1.selectionOverlay]
            \* twice the centre, so that halving is exact
            oldCenterX2 == 2 * old.left + old.width
            oldCenterY2 == 2 * old.top + old.height
            newHeight == overlayHeightAt(s1.overlayZoom)
            newWidth == overlayWidthOf(newHeight)
            newLeft == Div(oldCenterX2 - newWidth, 2)
            newTop == Div(oldCenterY2 - newHeight, 2)
        IN  _updateDarkMask(_constrainOverlay(
                [s1 EXCEPT !.heap[s1.selectionOverlay].width = newWidth,
                           !.heap[s1.selectionOverlay].height = newHeight,
                           !.heap[s1.selectionOverlay].left = newLeft,
                           !.heap[s1.selectionOverlay].top = newTop]))
        ELSE s1

resetOverlayPosition(s) ==
    IF s.selectionOverlay # 0
    THEN
    LET overlay == s.heap[s.selectionOverlay]
    IN  _updateDarkMask(_constrainOverlay(
            [s EXCEPT !.heap[s.selectionOverlay].left =
                          Div(s.canvasWidth - overlay.width, 2),
                      !.heap[s.selectionOverlay].top =
                          Div(s.canvasHeight - overlay.height, 2)]))
    ELSE s

\* a plausible slip: the handler updates the mask without constraining
overlayMoved_Unconstrained(s, target) ==
    _updateDarkMask(
        [s EXCEPT !.heap[s.selectionOverlay].left = target[1],
                  !.heap[s.selectionOverlay].top = target[2]])

\* the object:moving / object:moved handler, after fabric has put the dragged
\* overlay at target
overlayMoved(s, target) ==
    _updateDarkMask(_constrainOverlay(
        [s EXCEPT !.heap[s.selectionOverlay].left = target[1],
                  !.heap[s.selectionOverlay].top = target[2]]))


---------------------------------------------------------------------------
(* CanvasManager: background settings *)

_resizeCanvas(s, width, height) ==
    IF s.canvasWidth = width /\ s.canvasHeight = height THEN s
    ELSE [s EXCEPT !.canvasWidth = width, !.canvasHeight = height]

_applyBlurFilter(s) ==
    IF s.frameImage = 0 THEN s
    ELSE [s EXCEPT !.heap[s.frameImage].filters =
              IF s.blurAmount > 0 THEN <<Rat(s.blurAmount, 50)>> ELSE <<>>]

setBlurCore(s, amount) ==
    LET s1 == [s EXCEPT !.blurAmount = amount]
    IN  IF s1.backgroundMode = "image" /\ s1.frameImage # 0
        THEN _applyBlurFilter(s1) ELSE s1

_applyGradient(s) ==
    LET x2 == IF s.gradientDirection \in {"horizontal", "diagonal"}
              THEN s.canvasWidth ELSE 0
        y2 == IF s.gradientDirection = "horizontal" THEN 0 ELSE s.canvasHeight
    IN  [s EXCEPT !.canvasBackground =
            <<"gradient", x2, y2, s.gradientColors[1], s.gradientColors[2]>>]

---------------------------------------------------------------------------
(* CanvasManager: frames.  A world w holds the engine, the FrameSlider and  *)
(* the image loads in flight.                                               *)

World == [cm |-> cm, fs |-> fs, fetches |-> fetches, installs |-> installs,
          app |-> app]

\* whether setFrame returns a promise that an image load must resolve
setFrameSuspends(s) == s.video # None /\ s.backgroundMode = "image"

\* setFrame up to the start of the image load; awaited tells whether
\* FrameSlider._fetchFrame waits for it
setFrame(w, timestamp, awaited) ==
    IF w.cm.video = None THEN w
    ELSE
    LET w1 == [w EXCEPT !.cm.currentTimestamp = timestamp]
    IN  IF w1.cm.backgroundMode # "image" THEN w1
        ELSE [w1 EXCEPT !.fetches = @ (+) SetToBag(
                 {[video |-> Get(w1.cm.video), timestamp |-> timestamp,
                   awaited |-> awaited]})]

\* a plausible slip: the frame is always fitted to the width of the canvas
fitFrame_AlwaysWidth(canvasWidth, canvasHeight, imgWidth, imgHeight) ==
    [displayWidth |-> canvasWidth,
     displayHeight |-> Div(canvasWidth * imgHeight, imgWidth)]

\* the size the frame is displayed at: the largest of its aspect ratio that
\* fits the canvas
fitFrame(canvasWidth, canvasHeight, imgWidth, imgHeight) ==
    LET \* frameAspect > canvasAspect
        wider == imgWidth * canvasHeight > canvasWidth * imgHeight
    IN  [displayWidth |-> IF wider THEN canvasWidth
                          ELSE Div(canvasHeight * imgWidth, imgHeight),
         displayHeight |-> IF wider THEN Div(canvasWidth * imgHeight, imgWidth)
                           ELSE canvasHeight]

\* the callback of fabric.Image.fromURL in setFrame, for the load f
setFrameLoaded(s, f) ==
    LET s1 == IF s.frameImage # 0 THEN canvasRemove(s, s.frameImage) ELSE s
        imgWidth == FrameWidth(f.video)
        imgHeight == FrameHeight(f.video)
        fit == fitFrame(s1.canvasWidth, s1.canvasHeight, imgWidth, imgHeight)
        displayWidth == fit.displayWidth
        displayHeight == fit.displayHeight
        scale == Rat(displayWidth, Px(imgWidth))
        id == NewId(s1)
        img == [type |-> "image", kind |-> "frame", video |-> f.video,
                timestamp |-> f.timestamp, scaleX |-> scale, scaleY |-> scale,
                originX |-> "center", originY |-> "center",
                left |-> Div(s1.canvasWidth, 2), top |-> Div(s1.canvasHeight, 2),
                filters |-> <<>>]
        info == [displayWidth |-> displayWidth,
                 displayHeight |-> displayHeight,
                 displayLeft |-> Div(s1.canvasWidth - displayWidth, 2),
                 displayTop |-> Div(s1.canvasHeight - displayHeight, 2),
                 originalWidth |-> imgWidth,
                 originalHeight |-> imgHeight,
                 scale |-> scale]
        s2 == [s1 EXCEPT !.heap = (id :> img) @@ @,
                         !.frameDisplayInfo = Some(info),
                         !.frameImage = id]
        s3 == sendToBack(canvasAdd(_applyBlurFilter(s2), id), id)
    IN  _createDarkMask(_createSelectionOverlay(s3))

\* the callback of fabric.Image.fromURL in setFrame when the load f has
\* failed and fabric hands it an image without an element, 0 wide and 0 high:
\* frameAspect is 0/0, no comparison with it holds, and the frame is "fitted
\* to the height" with a width that is not a number
setFrameLoadedEmpty(s, f) ==
    LET s1 == IF s.frameImage # 0 THEN canvasRemove(s, s.frameImage) ELSE s
        id == NewId(s1)
        img == [type |-> "image", kind |-> "empty", video |-> f.video,
                timestamp |-> f.timestamp, scaleX |-> NaN, scaleY |-> NaN,
                originX |-> "center", originY |-> "center",
                left |-> Div(s1.canvasWidth, 2), top |-> Div(s1.canvasHeight, 2),
                filters |-> <<>>]
        info == [displayWidth |-> NaN,
                 displayHeight |-> s1.canvasHeight,
                 displayLeft |-> NaN,
                 displayTop |-> Div(s1.canvasHeight - s1.canvasHeight, 2),
                 originalWidth |-> 0,
                 originalHeight |-> 0,
                 scale |-> NaN]
        s2 == [s1 EXCEPT !.heap = (id :> img) @@ @,
                         !.frameDisplayInfo = Some(info),
                         !.frameImage = id]
        s3 == sendToBack(canvasAdd(_applyBlurFilter(s2), id), id)
    IN  _createDarkMask(_createSelectionOverlay(s3))

_updateBackground(w) ==
    LET s == w.cm
        s1 == IF s.backgroundMode # "image"
              THEN
              LET a == IF s.frameImage # 0
                       THEN [canvasRemove(s, s.frameImage) EXCEPT !.frameImage = 0]
                       ELSE s
                  b == IF a.selectionOverlay # 0
                       THEN [canvasRemove(a, a.selectionOverlay)
                                EXCEPT !.selectionOverlay = 0]
                       ELSE a
              IN  [b EXCEPT !.objects =
                       SelectSeq(@, LAMBDA id : id \notin Range(b.darkMaskRects)),
                            !.darkMaskRects = <<>>,
                            !.frameDisplayInfo = None]
              ELSE s
        s2 == IF s1.backgroundMode = "image"
              THEN _resizeCanvas(s1, Px(imageModeWidth), Px(imageModeHeight))
              ELSE _resizeCanvas(s1, Px(posterModeWidth), Px(posterModeHeight))
    IN  IF s2.backgroundMode = "color"
        THEN [w EXCEPT !.cm =
                 [s2 EXCEPT !.canvasBackground = <<"color", s2.backgroundColor>>]]
        ELSE IF s2.backgroundMode = "gradient"
        THEN [w EXCEPT !.cm = _applyGradient(s2)]
        ELSE setFrame([w EXCEPT !.cm =
                          [s2 EXCEPT !.canvasBackground = <<"color", "#1a1a2e">>]],
                      s2.currentTimestamp, FALSE)

setBackgroundMode(w, mode) ==
    _updateBackground([w EXCEPT !.cm.backgroundMode = mode])

setBackgroundColor(w, color) ==
    LET w1 == [w EXCEPT !.cm.backgroundColor = color]
    IN  IF w1.cm.backgroundMode = "color" THEN _updateBackground(w1) ELSE w1

setGradientColors(w, color1, color2) ==
    LET w1 == [w EXCEPT !.cm.gradientColors = <<color1, color2>>]
    IN  IF w1.cm.backgroundMode = "gradient" THEN _updateBackground(w1) ELSE w1

setGradientDirection(w, direction) ==
    LET w1 == [w EXCEPT !.cm.gradientDirection = direction]
    IN  IF w1.cm.backgroundMode = "gradient" THEN _updateBackground(w1) ELSE w1

---------------------------------------------------------------------------
(* CanvasManager: the two phases *)

\* a plausible slip: the quotients are returned as they are
_getSelectionCoords_Unclamped(s) ==
    IF s.frameDisplayInfo = None \/ s.selectionOverlay = 0
    THEN [left |-> RZero, top |-> RZero, width |-> ROne, height |-> ROne]
    ELSE
    LET frame == Get(s.frameDisplayInfo)
        overlay == s.heap[s.selectionOverlay]
    IN  [left |-> Rat(overlay.left - frame.displayLeft, frame.displayWidth),
         top |-> Rat(overlay.top - frame.displayTop, frame.displayHeight),
         width |-> Rat(overlay.width, frame.displayWidth),
         height |-> Rat(overlay.height, frame.displayHeight)]

_getSelectionCoords(s) ==
    IF s.frameDisplayInfo = None \/ s.selectionOverlay = 0
    THEN [left |-> RZero, top |-> RZero, width |-> ROne, height |-> ROne]
    ELSE
    LET frame == Get(s.frameDisplayInfo)
        overlay == s.heap[s.selectionOverlay]
    IN  [left |-> Clamp01(Rat(overlay.left - frame.displayLeft, frame.displayWidth)),
         top |-> Clamp01(Rat(overlay.top - frame.displayTop, frame.displayHeight)),
         width |-> Clamp01(Rat(overlay.width, frame.displayWidth)),
         height |-> Clamp01(Rat(overlay.height, frame.displayHeight))]

\* the data URL the capture resolves to: what was drawn, or None for null
_captureSelectionAsImage(s) ==
    IF s.frameImage = 0 \/ s.selectionOverlay = 0 \/ s.frameDisplayInfo = None
    THEN None
    ELSE
    LET frame == Get(s.frameDisplayInfo)
        overlay == s.heap[s.selectionOverlay]
        img == s.heap[s.frameImage]
    IN  Some([video |-> img.video, timestamp |-> img.timestamp,
              cropX |-> Rat((overlay.left - frame.displayLeft) * frame.originalWidth,
                            frame.displayWidth),
              cropY |-> Rat((overlay.top - frame.displayTop) * frame.originalHeight,
                            frame.displayHeight),
              cropW |-> Rat(overlay.width * frame.originalWidth, frame.displayWidth),
              cropH |-> Rat(overlay.height * frame.originalHeight,
                            frame.displayHeight),
              blurRadius |-> IF s.blurAmount > 0 THEN Rat(s.blurAmount, 2) ELSE RZero])

\* confirmBackground past its phase guard, up to its return or to its
\* suspension on _setImageBackground
confirmBackgroundProceeds(w) ==
    LET s == w.cm
    IN  LET locked0 == [mode |-> s.backgroundMode,
                        selectionCoords |-> _getSelectionCoords(s),
                        blur |-> s.blurAmount,
                        backgroundColor |-> s.backgroundColor,
                        gradientColors |-> s.gradientColors,
                        gradientDirection |-> s.gradientDirection,
                        video |-> s.video,
                        timestamp |-> s.currentTimestamp,
                        capturedImageUrl |-> None]
            locked == IF s.backgroundMode = "image" /\ s.frameImage # 0
                         /\ s.selectionOverlay # 0
                      THEN [locked0 EXCEPT !.capturedImageUrl =
                               _captureSelectionAsImage(s)]
                      ELSE locked0
            s1 == [s EXCEPT !.lockedBackgroundData = Some(locked)]
            s2 == IF s1.selectionOverlay # 0
                  THEN [canvasRemove(s1, s1.selectionOverlay)
                           EXCEPT !.selectionOverlay = 0]
                  ELSE s1
            s3 == [s2 EXCEPT !.objects =
                       SelectSeq(@, LAMBDA id : id \notin Range(s2.darkMaskRects)),
                             !.darkMaskRects = <<>>]
            s4 == IF s3.frameImage # 0
                  THEN [canvasRemove(s3, s3.frameImage) EXCEPT !.frameImage = 0]
                  ELSE s3
            s5 == _resizeCanvas([s4 EXCEPT !.frameDisplayInfo = None],
                                Px(posterModeWidth), Px(posterModeHeight))
        IN  IF s5.backgroundMode = "image" /\ locked.capturedImageUrl # None
            THEN [w EXCEPT !.cm = s5,
                           !.installs = @ (+) SetToBag({Get(locked.capturedImageUrl)})]
            ELSE
            LET s6 == IF s5.backgroundMode = "color"
                      THEN [s5 EXCEPT !.canvasBackground =
                               <<"color", s5.backgroundColor>>]
                      ELSE IF s5.backgroundMode = "gradient"
                      THEN _applyGradient(s5)
                      ELSE s5
            IN  [w EXCEPT !.cm = [s6 EXCEPT !.workflowPhase = "elements"]]

\* a plausible slip: the guard against a second confirm is left out
confirmBackground_Unguarded(w) == confirmBackgroundProceeds(w)

confirmBackground(w) ==
    IF w.cm.workflowPhase = "elements" THEN w ELSE confirmBackgroundProceeds(w)

\* the callback of _setImageBackground for the data URL url, then the rest of
\* the confirmBackground call that awaited it
confirmBackgroundInstalled(s, url) ==
    LET id == NewId(s)
        img == [type |-> "image", kind |-> "captured", video |-> url.video,
                timestamp |-> url.timestamp, url |-> url,
                scaleX |-> ROne, scaleY |-> ROne,
                originX |-> "left", originY |-> "top", left |-> 0, top |-> 0,
                filters |-> <<>>]
        s1 == [s EXCEPT !.heap = (id :> img) @@ @, !.frameImage = id]
        s2 == sendToBack(canvasAdd(s1, id), id)
    IN  [s2 EXCEPT !.workflowPhase = "elements"]

\* a plausible slip: the canvas gets the wide size whatever the mode
resetCanvasSize_AlwaysWide(mode) == <<Px(imageModeWidth), Px(imageModeHeight)>>

\* the size resetToBackgroundPhase gives the canvas, by background mode
resetCanvasSize(mode) ==
    IF mode = "image" THEN <<Px(imageModeWidth), Px(imageModeHeight)>>
    ELSE <<Px(posterModeWidth), Px(posterModeHeight)>>

resetToBackgroundPhase(w) ==
    LET s == w.cm
    IN  IF s.workflowPhase = "background" THEN w
        ELSE
        LET removed == {id \in Range(s.objects) :
                           s.heap[id].type \in {"i-text", "textbox", "line"}}
            s1 == [s EXCEPT !.objects = SelectSeq(@, LAMBDA id : id \notin removed),
                            !.active = IF @ \in removed THEN 0 ELSE @,
                            !.activeText = IF s.active \in removed THEN 0 ELSE @,
                            !.activeLine = IF s.active \in removed THEN 0 ELSE @]
            s2 == IF s1.frameImage # 0
                  THEN [canvasRemove(s1, s1.frameImage) EXCEPT !.frameImage = 0]
                  ELSE s1
            s3 == [s2 EXCEPT !.canvasBackground = <<"color", "#1a1a2e">>]
            w1 == IF s3.backgroundMode = "image"
                  THEN
                  LET a == [w EXCEPT !.cm =
                               _resizeCanvas(s3, resetCanvasSize(s3.backgroundMode)[1],
                                             resetCanvasSize(s3.backgroundMode)[2])]
                  IN  IF a.cm.video # None
                      THEN setFrame(a, a.cm.currentTimestamp, FALSE) ELSE a
                  ELSE
                  LET b == _resizeCanvas(s3, resetCanvasSize(s3.backgroundMode)[1],
                                         resetCanvasSize(s3.backgroundMode)[2])
                  IN  IF b.backgroundMode = "color"
                      THEN [w EXCEPT !.cm = [b EXCEPT !.canvasBackground =
                                                <<"color", b.backgroundColor>>]]
                      ELSE IF b.backgroundMode = "gradient"
                      THEN [w EXCEPT !.cm = _applyGradient(b)]
                      ELSE [w EXCEPT !.cm = b]
        IN  [w1 EXCEPT !.cm.workflowPhase = "background",
                       !.cm.lockedBackgroundData = None]

---------------------------------------------------------------------------
(* CanvasManager: text and line elements *)

_getPosterArea(s) ==
    IF s.backgroundMode = "image" /\ s.selectionOverlay # 0
    THEN LET o == s.heap[s.selectionOverlay]
         IN  [left |-> o.left, top |-> o.top, width |-> o.width, height |-> o.height]
    ELSE [left |-> 0, top |-> 0, width |-> s.canvasWidth, height |-> s.canvasHeight]

addText(s) ==
    LET posterArea == _getPosterArea(s)
        id == NewId(s)
        textObj == [type |-> "textbox", text |-> "New Text",
                    left |-> posterArea.left + Div(posterArea.width, 2),
                    top |-> posterArea.top + Div(posterArea.height, 2),
                    fontFamily |-> "Arial", fontSize |-> 32, fill |-> "#ffffff",
                    textAlign |-> "center",
                    originX |-> "center", originY |-> "center",
                    width |-> Div(posterArea.width * 8, 10),
                    scaleX |-> 1, scaleY |-> 1, angle |-> 0]
        s1 == canvasAdd([s EXCEPT !.heap = (id :> textObj) @@ @], id)
    IN  _reorderObjects(setActiveObject(s1, id))

\* new fabric.Line([x1, y1, x2, y2], {stroke, strokeWidth}): the object is
\* positioned by the left top corner of the box around its two points
Line(x1, y1, x2, y2, stroke, strokeWidth) ==
    [type |-> "line", x1 |-> x1, y1 |-> y1, x2 |-> x2, y2 |-> y2,
     left |-> Min(x1, x2), top |-> Min(y1, y2),
     width |-> Abs(x2 - x1), height |-> Abs(y2 - y1),
     originX |-> "left", originY |-> "top",
     scaleX |-> 1, scaleY |-> 1, angle |-> 0,
     stroke |-> stroke, strokeWidth |-> strokeWidth]

addLine(s) ==
    LET posterArea == _getPosterArea(s)
        left == posterArea.left + Px(30)
        top == posterArea.top + Div(posterArea.height, 10)
        lineHeight == Div(posterArea.height * 8, 10)
        id == NewId(s)
        line == Line(left, top, left, top + lineHeight, "#ffffff", 2)
        s1 == canvasAdd([s EXCEPT !.heap = (id :> line) @@ @], id)
    IN  _reorderObjects(setActiveObject(s1, id))

---------------------------------------------------------------------------
(* CanvasManager: export *)

\* what the browser measures: the width of the widest line of a text at the
\* font size fontSize * scaleY (ctx.measureText), and the height fabric lays
\* an unscaled textbox out to
measureText(obj) == Px(120) * obj.scaleY
textboxHeight(obj) == Px(36)

\* getBoundingRect of an unrotated textbox positioned by its centre
getBoundingRect(obj) ==
    [left |-> obj.left - Div(obj.width * obj.scaleX, 2),
     top |-> obj.top - Div(textboxHeight(obj) * obj.scaleY, 2),
     width |-> obj.width * obj.scaleX,
     height |-> textboxHeight(obj) * obj.scaleY]

\* fabric.Line.calcLinePoints: the two points relative to the centre
calcLinePoints(obj) ==
    LET xMult == IF obj.x1 <= obj.x2 THEN 0 - 1 ELSE 1
        yMult == IF obj.y1 <= obj.y2 THEN 0 - 1 ELSE 1
    IN  [x1 |-> xMult * Div(obj.width, 2), y1 |-> yMult * Div(obj.height, 2),
         x2 |-> (0 - xMult) * Div(obj.width, 2),
         y2 |-> (0 - yMult) * Div(obj.height, 2)]

\* half the extent of a line with its stroke, along its own axes: the stroke
\* (cap 'butt') adds to the extent across the line and not to the one along it
halfExtentX(obj) ==
    Div((obj.width + (IF obj.height = 0 THEN 0 ELSE Px(obj.strokeWidth))) * obj.scaleX, 2)
halfExtentY(obj) ==
    Div((obj.height + (IF obj.width = 0 THEN 0 ELSE Px(obj.strokeWidth))) * obj.scaleY, 2)

\* fabric.Object.getCenterPoint for an object positioned by its left top
\* corner, at an angle of 0 or 90 degrees
getCenterPoint(obj) ==
    IF obj.angle = 0
    THEN [x |-> obj.left + halfExtentX(obj), y |-> obj.top + halfExtentY(obj)]
    ELSE [x |-> obj.left - halfExtentY(obj), y |-> obj.top + halfExtentX(obj)]

\* fabric.Object.calcTransformMatrix: translation to the centre, rotation
\* (cos and sin of 0 or 90 degrees), scale
calcTransformMatrix(obj) ==
    LET cos == IF obj.angle = 0 THEN 1 ELSE 0
        sin == IF obj.angle = 0 THEN 0 ELSE 1
        center == getCenterPoint(obj)
    IN  [a |-> cos * obj.scaleX, b |-> sin * obj.scaleX,
         c |-> (0 - sin) * obj.scaleY, d |-> cos * obj.scaleY,
         e |-> center.x, f |-> center.y]

\* fabric.util.transformPoint
transformPoint(p, m) ==
    [x |-> m.a * p.x + m.c * p.y + m.e, y |-> m.b * p.x + m.d * p.y + m.f]

\* a plausible slip: the surface is the reference in both phases
exportReference_AlwaysCanvas(s) ==
    [left |-> 0, top |-> 0, width |-> s.canvasWidth, height |-> s.canvasHeight]

\* the rectangle element positions are normalised against
exportReference(s) ==
    IF s.workflowPhase = "elements" /\ s.lockedBackgroundData # None
    THEN [left |-> 0, top |-> 0, width |-> s.canvasWidth, height |-> s.canvasHeight]
    ELSE IF s.selectionOverlay # 0
    THEN LET overlay == s.heap[s.selectionOverlay]
         IN  [left |-> overlay.left, top |-> overlay.top,
              width |-> overlay.width, height |-> overlay.height]
    ELSE [left |-> 0, top |-> 0, width |-> s.canvasWidth, height |-> s.canvasHeight]

\* the objects the loop of exportPosterData skips
\* (only the rects of the model carry the isOverlay and isMask flags)
exportSkips(s, id) ==
    \/ id = s.frameImage
    \/ s.heap[id].type = "rect" /\ s.heap[id].isOverlay
    \/ s.heap[id].type = "rect" /\ s.heap[id].isMask

\* a plausible slip: only 'i-text' objects are taken for text
exportIsText_ITextOnly(obj) == obj.type = "i-text"

exportIsText(obj) == obj.type = "i-text" \/ obj.type = "textbox"

\* a plausible slip: the alignment is not taken into account
alignedTextLeft_ContainerLeft(bboxLeft, textboxWidth, maxLineWidth, textAlign) ==
    bboxLeft

\* where the text starts within its container
alignedTextLeft(bboxLeft, textboxWidth, maxLineWidth, textAlign) ==
    IF textAlign = "center"
    THEN bboxLeft + Div(textboxWidth - maxLineWidth, 2)
    ELSE IF textAlign = "right"
    THEN bboxLeft + textboxWidth - maxLineWidth
    ELSE bboxLeft

exportTextLayer(obj, ref) ==
    LET bbox == getBoundingRect(obj)
        textboxWidth == obj.width * obj.scaleX
        maxLineWidth == measureText(obj)
        textLeft == alignedTextLeft(bbox.left, textboxWidth, maxLineWidth,
                                    obj.textAlign)
    IN  [content |-> obj.text,
         left |-> Rat(textLeft - ref.left, ref.width),
         top |-> Rat(bbox.top - ref.top, ref.height),
         fontFamily |-> obj.fontFamily,
         fontSize |-> obj.fontSize,
         fill |-> obj.fill,
         fontWeight |-> "normal",
         fontStyle |-> "normal",
         underline |-> FALSE,
         textAlign |-> obj.textAlign,
         angle |-> obj.angle,
         scaleX |-> obj.scaleX,
         scaleY |-> obj.scaleY,
         width |-> Rat(maxLineWidth, ref.width),
         height |-> Rat(bbox.height, ref.height)]

\* a plausible slip: the points the line was created with are exported
exportLinePoints_AsCreated(obj) ==
    <<[x |-> obj.x1, y |-> obj.y1], [x |-> obj.x2, y |-> obj.y2]>>

\* the two points of a line in the coordinates of the surface
exportLinePoints(obj) ==
    LET points == calcLinePoints(obj)
        matrix == calcTransformMatrix(obj)
    IN  <<transformPoint([x |-> points.x1, y |-> points.y1], matrix),
          transformPoint([x |-> points.x2, y |-> points.y2], matrix)>>

exportLineElement(obj, ref) ==
    LET point == exportLinePoints(obj)
    IN  [x1 |-> Rat(point[1].x - ref.left, ref.width),
         y1 |-> Rat(point[1].y - ref.top, ref.height),
         x2 |-> Rat(point[2].x - ref.left, ref.width),
         y2 |-> Rat(point[2].y - ref.top, ref.height),
         stroke |-> obj.stroke,
         strokeWidth |-> obj.strokeWidth * obj.scaleX]

\* the objects of the scene, in scene order, that the loop takes for text
exportTexts(s) ==
    LET kept == SelectSeq(s.objects,
                          LAMBDA id : ~exportSkips(s, id) /\ exportIsText(s.heap[id]))
    IN  [i \in 1..Len(kept) |-> s.heap[kept[i]]]

\* the objects of the scene, in scene order, that the loop takes for lines
exportLines(s) ==
    LET kept == SelectSeq(s.objects,
                          LAMBDA id : ~exportSkips(s, id) /\ s.heap[id].type = "line")
    IN  [i \in 1..Len(kept) |-> s.heap[kept[i]]]

exportPosterData(s) ==
    LET isElementsPhase == s.workflowPhase = "elements"
        locked == isElementsPhase /\ s.lockedBackgroundData # None
        selectionCoords == IF locked
                           THEN Get(s.lockedBackgroundData).selectionCoords
                           ELSE _getSelectionCoords(s)
        ref == exportReference(s)
        texts == exportTexts(s)
        lines == exportLines(s)
        bgData == s.lockedBackgroundData
    IN  [backgroundMode |-> IF locked THEN Get(bgData).mode ELSE s.backgroundMode,
         backgroundColor |-> IF locked THEN Get(bgData).backgroundColor
                             ELSE s.backgroundColor,
         gradientColors |-> IF locked THEN Get(bgData).gradientColors
                            ELSE s.gradientColors,
         gradientDirection |-> IF locked THEN Get(bgData).gradientDirection
                               ELSE s.gradientDirection,
         video |-> IF locked THEN Get(bgData).video ELSE s.video,
         timestamp |-> IF locked THEN Get(bgData).timestamp ELSE s.currentTimestamp,
         selectionCoords |-> selectionCoords,
         blur |-> IF locked THEN Get(bgData).blur ELSE s.blurAmount,
         canvasWidth |-> ref.width,
         canvasHeight |-> ref.height,
         textLayers |-> [i \in 1..Len(texts) |-> exportTextLayer(texts[i], ref)],
         lineElements |-> [i \in 1..Len(lines) |-> exportLineElement(lines[i], ref)]]

---------------------------------------------------------------------------
(* FrameSlider *)

NoTimestamp == 0 - 1

InitFrameSlider ==
    [duration |-> 0, debounceTimer |-> FALSE, pendingTimestamp |-> NoTimestamp,
     isLoading |-> FALSE, sliderValue |-> 0]

RECURSIVE _fetchFrame(_, _)
\* a plausible slip: the request made during the load is not taken up
_fetchFrameResumed_NoFollowUp(w, timestamp) == [w EXCEPT !.fs.isLoading = FALSE]

\* the part of _fetchFrame after its await
_fetchFrameResumed(w, timestamp) ==
    LET w1 == [w EXCEPT !.fs.isLoading = FALSE]
    IN  IF w1.fs.pendingTimestamp # timestamp
        THEN _fetchFrame(w1, w1.fs.pendingTimestamp)
        ELSE w1

_fetchFrame(w, timestamp) ==
    IF w.fs.isLoading THEN w
    ELSE
    LET w1 == [w EXCEPT !.fs.isLoading = TRUE]
    IN  IF setFrameSuspends(w1.cm)
        THEN setFrame(w1, timestamp, TRUE)
        ELSE _fetchFrameResumed(setFrame(w1, timestamp, TRUE), timestamp)

\* a plausible slip: the slider fetches at once instead of arming the timer
_onSliderChange_Immediate(w, timestamp) ==
    _fetchFrame([w EXCEPT !.fs.sliderValue = timestamp,
                          !.fs.pendingTimestamp = timestamp], timestamp)

_onSliderChange(w, timestamp) ==
    [w EXCEPT !.fs.sliderValue = timestamp,
              !.fs.pendingTimestamp = timestamp,
              !.fs.debounceTimer = TRUE]

_stepFrame(w, direction) ==
    IF w.fs.duration = 0 THEN w
    ELSE
    LET newValue == Max(0, Min(w.fs.duration, w.fs.sliderValue + direction))
    IN  _fetchFrame([w EXCEPT !.fs.sliderValue = newValue,
                              !.fs.pendingTimestamp = newValue], newValue)

setDuration(w, duration) ==
    [w EXCEPT !.fs.duration = duration, !.fs.sliderValue = 0]


---------------------------------------------------------------------------
(* TextEditor, and what the user does to an element on the canvas *)

\* TextEditor.activeText and activeLine: set by the textSelected and
\* lineSelected events the engine sends for the selected object
activeText(s) == s.activeText
activeLine(s) == s.activeLine

\* TextEditor._onSelectionCleared
_onSelectionCleared(s) == [s EXCEPT !.activeText = 0, !.activeLine = 0]

\* a plausible slip: the guard on the overlay is missing (the reference to a
\* removed overlay is dropped with it)
deleteSelected_OverlayToo(s) ==
    LET activeObj == s.active
    IN  IF /\ activeObj # 0
           /\ activeObj # s.frameImage
           /\ ~(s.heap[activeObj].type = "rect" /\ s.heap[activeObj].isMask)
        THEN [canvasRemove(s, activeObj)
                 EXCEPT !.selectionOverlay = IF @ = activeObj THEN 0 ELSE @]
        ELSE s

deleteSelected(s) ==
    LET activeObj == s.active
    IN  IF /\ activeObj # 0
           /\ activeObj # s.frameImage
           /\ ~(s.heap[activeObj].type = "rect" /\ s.heap[activeObj].isOverlay)
           /\ ~(s.heap[activeObj].type = "rect" /\ s.heap[activeObj].isMask)
        THEN canvasRemove(s, activeObj)
        ELSE s

\* TextEditor._deleteSelected: the click on either delete button
_deleteSelected(s) == _onSelectionCleared(deleteSelected(s))

_setAlignment(s, align) ==
    IF activeText(s) = 0 THEN s
    ELSE [s EXCEPT !.heap[activeText(s)].textAlign = align]

\* _updateLineStyle('strokeWidth', value)
_updateLineStyle(s, value) ==
    IF activeLine(s) = 0 THEN s
    ELSE [s EXCEPT !.heap[activeLine(s)].strokeWidth = value]

\* the user clicks an element: fabric makes it the active object
elementSelected(s, id) == setActiveObject(s, id)

\* the user clicks the selection overlay, the only other selectable object
overlaySelected(s) == setActiveObject(s, s.selectionOverlay)

\* the user drags the active element: fabric sets its left and top
elementMoved(s, target) ==
    [s EXCEPT !.heap[s.active].left = target[1],
              !.heap[s.active].top = target[2]]

\* the user drags the lower right handle of the active, unrotated element:
\* fabric scales it by factor and keeps its upper left corner where it is
elementScaled(s, factor) ==
    LET obj == s.heap[s.active]
    IN  IF obj.type = "line"
        THEN [s EXCEPT !.heap[s.active].scaleX = factor,
                       !.heap[s.active].scaleY = factor]
        ELSE LET bbox == getBoundingRect(obj)
             IN  [s EXCEPT !.heap[s.active].scaleX = factor,
                           !.heap[s.active].scaleY = factor,
                           !.heap[s.active].left =
                               bbox.left + Div(obj.width * factor, 2),
                           !.heap[s.active].top =
                               bbox.top + Div(textboxHeight(obj) * factor, 2)]

\* the user turns the active, unrotated line by a quarter turn with the
\* rotation handle: fabric keeps its centre where it is
elementRotated(s) ==
    LET obj == s.heap[s.active]
        center == getCenterPoint(obj)
    IN  [s EXCEPT !.heap[s.active].angle = 90,
                  !.heap[s.active].left = center.x + halfExtentY(obj),
                  !.heap[s.active].top = center.y - halfExtentX(obj)]

---------------------------------------------------------------------------
(* App: the selected video, the filename and the generate button *)

\* String.prototype.trim on a filename, a sequence of characters
RECURSIVE TrimStart(_)
TrimStart(str) ==
    IF str # <<>> /\ Head(str) = " " THEN TrimStart(Tail(str)) ELSE str
RECURSIVE TrimEnd(_)
TrimEnd(str) ==
    IF str # <<>> /\ str[Len(str)] = " "
    THEN TrimEnd(SubSeq(str, 1, Len(str) - 1)) ELSE str
Trim(str) == TrimEnd(TrimStart(str))

\* inFlight: the requests to /api/posters/generate not yet answered;
\* exported and sent count the calls of exportPosterData and of fetch
InitApp ==
    [selectedVideo |-> None,
     outputFilename |-> <<>>,
     btnGenerateDisabled |-> FALSE,
     generationStatus |-> "",
     alert |-> "",
     exported |-> 0,
     sent |-> 0,
     inFlight |-> <<>>]

\* App._selectVideo once the video's info has arrived or has failed to: with
\* the info the video is stored, and the call of resetCanvas, which is not a
\* method of CanvasManager, throws into the catch
_selectVideo(w, video, infoArrived) ==
    [w EXCEPT !.app.selectedVideo = IF infoArrived THEN Some(video) ELSE @,
              !.app.alert = "Failed to load video information"]

\* a plausible slip: the filename is tested as it was typed
generateRejects_Untrimmed(a) ==
    IF a.selectedVideo = None THEN "Please select a video first"
    ELSE IF a.outputFilename = <<>> THEN "Please enter a filename"
    ELSE ""

\* the message App._generatePoster rejects the request with, "" if it does not
generateRejects(a) ==
    IF a.selectedVideo = None THEN "Please select a video first"
    ELSE IF Trim(a.outputFilename) = <<>> THEN "Please enter a filename"
    ELSE ""

\* App._generatePoster up to its await
_generatePoster(w) ==
    IF generateRejects(w.app) # ""
    THEN [w EXCEPT !.app.alert = generateRejects(w.app)]
    ELSE
    LET posterData == [filename |-> Trim(w.app.outputFilename)] @@
                          exportPosterData(w.cm)
    IN  [w EXCEPT !.app.alert = "",
                  !.app.btnGenerateDisabled = TRUE,
                  !.app.generationStatus = "Generating poster...",
                  !.app.exported = @ + 1,
                  !.app.sent = @ + 1,
                  !.app.inFlight = Append(@, posterData)]

\* a plausible slip: the button is enabled again only after a success
_generatePosterSettled_NoFinally(w, ok) ==
    [w EXCEPT !.app.inFlight = Tail(@),
              !.app.generationStatus = IF ok THEN "Saved" ELSE "Error",
              !.app.btnGenerateDisabled = IF ok THEN FALSE ELSE @]

\* App._generatePoster from its await on: the answer, catch and finally
_generatePosterSettled(w, ok) ==
    [w EXCEPT !.app.inFlight = Tail(@),
              !.app.generationStatus = IF ok THEN "Saved" ELSE "Error",
              !.app.btnGenerateDisabled = FALSE]

---------------------------------------------------------------------------
(* The state machine *)

Init ==
    /\ cm = InitCanvasManager
    /\ fs = InitFrameSlider
    /\ fetches = EmptyBag
    /\ installs = EmptyBag
    /\ app = InitApp
    /\ lastOp = <<"init">>

\* the step that takes the world to w, within the bounds of the model; lastOp
\* records the call (and, for the two phase transitions, the phase it found)
Apply(w, op) ==
    /\ BagCardinality(w.fetches) + BagCardinality(w.installs) <= MaxLoads
    /\ Len(w.cm.objects) <= MaxObjects
    /\ Len(Elements(w.cm)) <= MaxElements
    /\ cm' = Collect(w.cm)
    /\ fs' = w.fs
    /\ fetches' = w.fetches
    /\ installs' = w.installs
    /\ w.app.sent <= MaxRequests
    /\ app' = w.app
    /\ lastOp' = op

\* a caller hands the engine its video source
SetVideo(v) ==
    Apply([World EXCEPT !.cm.video = Some(v)], <<"setVideo", v>>)

\* the user drags the overlay: fabric moves it and fires object:moving
OverlayMoving(target) ==
    /\ cm.selectionOverlay # 0
    /\ Apply([World EXCEPT !.cm = overlayMoved(cm, target)], <<"overlayMoved", target>>)

SetZoom(zoomLevel) ==
    Apply([World EXCEPT !.cm = setZoom(cm, zoomLevel)], <<"setZoom", zoomLevel>>)

ResetOverlayPosition ==
    Apply([World EXCEPT !.cm = resetOverlayPosition(cm)], <<"resetOverlayPosition">>)

SetBlur(amount) ==
    Apply([World EXCEPT !.cm = setBlurCore(cm, amount)], <<"setBlur", amount>>)

SetBackgroundMode(mode) ==
    Apply(setBackgroundMode(World, mode), <<"setBackgroundMode", mode>>)

SetBackgroundColor(color) ==
    Apply(setBackgroundColor(World, color), <<"setBackgroundColor", color>>)

SetGradientColors(pair) ==
    Apply(setGradientColors(World, pair[1], pair[2]), <<"setGradientColors", pair>>)

SetGradientDirection(direction) ==
    Apply(setGradientDirection(World, direction), <<"setGradientDirection", direction>>)

\* App._confirmBackground: the click on "confirm background"
ConfirmBackground ==
    Apply(confirmBackground(World), <<"confirmBackground", cm.workflowPhase>>)

\* the captured image of a suspended confirmBackground finishes loading
ConfirmBackgroundInstalled(url) ==
    /\ BagIn(url, installs)
    /\ Apply([World EXCEPT !.cm = confirmBackgroundInstalled(cm, url),
                           !.installs = @ (-) SetToBag({url})],
             <<"confirmBackgroundInstalled", url>>)

\* App._changeBackground: the click on "change background"
ChangeBackground ==
    Apply(resetToBackgroundPhase(World), <<"resetToBackgroundPhase", cm.workflowPhase>>)

AddText ==
    Apply([World EXCEPT !.cm = addText(cm)], <<"addText">>)

AddLine ==
    Apply([World EXCEPT !.cm = addLine(cm)], <<"addLine">>)

\* the user clicks an element
ElementSelected(id) ==
    /\ id \in Range(cm.objects) /\ IsElement(cm, id)
    /\ Apply([World EXCEPT !.cm = elementSelected(cm, id)], <<"elementSelected", id>>)

\* the click on an alignment button of the text editor
SetAlignment(align) ==
    Apply([World EXCEPT !.cm = _setAlignment(cm, align)], <<"setAlignment", align>>)

\* the input of a width in the line editor
UpdateLineStyle(value) ==
    Apply([World EXCEPT !.cm = _updateLineStyle(cm, value)],
          <<"updateLineStyle", value>>)

ElementMoved(target) ==
    /\ cm.active # 0 /\ IsElement(cm, cm.active)
    /\ Apply([World EXCEPT !.cm = elementMoved(cm, target)], <<"elementMoved", target>>)

ElementScaled(factor) ==
    /\ cm.active # 0 /\ IsElement(cm, cm.active)
    /\ cm.heap[cm.active].angle = 0 /\ cm.heap[cm.active].scaleX = 1
    /\ Apply([World EXCEPT !.cm = elementScaled(cm, factor)], <<"elementScaled", factor>>)

ElementRotated ==
    /\ activeLine(cm) # 0
    /\ cm.heap[cm.active].angle = 0
    /\ Apply([World EXCEPT !.cm = elementRotated(cm)], <<"elementRotated">>)

\* the user clicks the selection overlay
OverlaySelected ==
    /\ cm.selectionOverlay # 0
    /\ Apply([World EXCEPT !.cm = overlaySelected(cm)], <<"overlaySelected">>)

\* the click on the delete button of the text or of the line editor; the
\* step records the type of the object that was active, "" for none
DeleteSelected ==
    Apply([World EXCEPT !.cm = _deleteSelected(cm)],
          <<"deleteSelected",
            IF cm.active = 0 THEN "" ELSE cm.heap[cm.active].type>>)

\* the click on a video of the file list, and the answer to getVideoInfo
SelectVideo(video, infoArrived) ==
    Apply(_selectVideo(World, video, infoArrived), <<"selectVideo", video, infoArrived>>)

\* the user types a filename
EditFilename(name) ==
    Apply([World EXCEPT !.app.outputFilename = name], <<"editFilename", name>>)

\* the click on the generate button: a disabled button gets no click
GenerateClicked ==
    /\ ~app.btnGenerateDisabled
    /\ Apply(_generatePoster(World), <<"generateClicked">>)

\* the answer to the oldest request: ok, or a failure (no answer, or an
\* answer whose status is not ok)
GenerateSettled(ok) ==
    /\ app.inFlight # <<>>
    /\ Apply(_generatePosterSettled(World, ok), <<"generateSettled", ok>>)

\* the frame image of the load f arrives
FrameLoaded(f) ==
    /\ BagIn(f, fetches)
    /\ LET w1 == [World EXCEPT !.cm = setFrameLoaded(cm, f),
                               !.fetches = @ (-) SetToBag({f})]
       IN  Apply(IF f.awaited THEN _fetchFrameResumed(w1, f.timestamp) ELSE w1,
                 <<"frameLoaded", f>>)

\* the frame image of the load f fails to arrive. What fabric does then
\* depends on its version: it throws before it calls the callback of setFrame
\* (the promise of setFrame is never resolved), or it calls it with an image
\* without an element.
FrameFailed(f) ==
    /\ BagIn(f, fetches)
    /\ \E outcome \in {"thrown", "empty"} :
           LET w0 == [World EXCEPT !.fetches = @ (-) SetToBag({f})]
               w1 == [w0 EXCEPT !.cm = setFrameLoadedEmpty(cm, f)]
           IN  Apply(IF outcome = "thrown" THEN w0
                     ELSE IF f.awaited THEN _fetchFrameResumed(w1, f.timestamp)
                     ELSE w1,
                     <<"frameFailed", f, outcome>>)

SliderChange(timestamp) ==
    Apply(_onSliderChange(World, timestamp), <<"sliderChange", timestamp>>)

\* the debounce timer of _onSliderChange fires
DebounceFired ==
    /\ fs.debounceTimer
    /\ Apply(_fetchFrame([World EXCEPT !.fs.debounceTimer = FALSE],
                         fs.pendingTimestamp), <<"debounceFired">>)

StepFrame(direction) ==
    Apply(_stepFrame(World, direction), <<"stepFrame", direction>>)

SetDuration(duration) ==
    Apply(setDuration(World, duration), <<"setDuration", duration>>)

\* the two phases: confirming and changing the background, text and lines
Next ==
    \/ \E v \in {"wide"} : SetVideo(v)
    \/ \E m \in {"image", "color"} : SetBackgroundMode(m)
    \/ ConfirmBackground
    \/ \E u \in BagToSet(installs) : ConfirmBackgroundInstalled(u)
    \/ ChangeBackground
    \/ AddText
    \/ AddLine
    \/ \E f \in BagToSet(fetches) : FrameLoaded(f)

Spec == Init /\ [][Next]_vars

\* the overlay during background selection: frames of both videos, drags, zoom
OverlayNext ==
    \/ \E v \in Videos : SetVideo(v)
    \/ \E m \in {"image", "color"} : SetBackgroundMode(m)
    \/ \E f \in BagToSet(fetches) : FrameLoaded(f)
    \/ \E target \in DragTargets : OverlayMoving(target)
    \/ \E z \in ZoomLevels : SetZoom(z)
    \/ ResetOverlayPosition

OverlaySpec == Init /\ [][OverlayNext]_vars

\* the overlay on preview frames with a width or a height of zero
DegenerateNext ==
    \/ \E v \in DegenerateVideos : SetVideo(v)
    \/ \E m \in {"image", "color"} : SetBackgroundMode(m)
    \/ \E f \in BagToSet(fetches) : FrameLoaded(f)
    \/ \E target \in DragTargets : OverlayMoving(target)
    \/ \E z \in {50, 100} : SetZoom(z)
    \/ ResetOverlayPosition

DegenerateSpec == Init /\ [][DegenerateNext]_vars

\* text and lines, on the bare canvas and on the frame: selected, aligned,
\* restyled, moved, scaled and turned
ElementNext ==
    \/ \E v \in {"wide"} : SetVideo(v)
    \/ \E m \in {"image"} : SetBackgroundMode(m)
    \/ \E f \in BagToSet(fetches) : FrameLoaded(f)
    \/ AddText
    \/ AddLine
    \/ \E id \in 1..MaxObjects : ElementSelected(id)
    \/ \E align \in Alignments : SetAlignment(align)
    \/ \E value \in LineWidths : UpdateLineStyle(value)
    \/ \E target \in ElementTargets : ElementMoved(target)
    \/ \E factor \in {2} : ElementScaled(factor)
    \/ ElementRotated

ElementSpec == Init /\ [][ElementNext]_vars

\* selecting and deleting: elements and the overlay are clicked, and either
\* delete button is
DeleteNext ==
    \/ cm.video = None /\ SetVideo("wide")
    \/ cm.frameImage = 0 /\ SetBackgroundMode("image")
    \/ \E f \in BagToSet(fetches) : FrameLoaded(f)
    \/ AddText
    \/ AddLine
    \/ \E id \in 1..MaxObjects : ElementSelected(id)
    \/ OverlaySelected
    \/ \E target \in ElementTargets : ElementMoved(target)
    \/ DeleteSelected

DeleteSpec == Init /\ [][DeleteNext]_vars

\* the frame requests: the slider, the step buttons and the engine's own.
\* The duration is set once a video is (App._selectVideo), and the slider's
\* value lies between 0 and its max, the duration.
FetchNext ==
    \/ \E v \in {"wide"} : SetVideo(v)
    \/ \E d \in {1} : cm.video # None /\ SetDuration(d)
    \/ \E t \in Timestamps : t <= fs.duration /\ SliderChange(t)
    \/ DebounceFired
    \/ \E d \in {0 - 1, 1} : StepFrame(d)
    \/ \E m \in {"image", "color"} : SetBackgroundMode(m)
    \/ \E f \in BagToSet(fetches) : FrameLoaded(f)

FetchSpec == Init /\ [][FetchNext]_vars

\* generation: the video, the filename and the button, over a background of
\* colour that is confirmed and changed and gets texts
GenerateNext ==
    \/ \E v \in {"wide"} : \E infoArrived \in BOOLEAN : SelectVideo(v, infoArrived)
    \/ \E name \in Filenames : EditFilename(name)
    \/ GenerateClicked
    \/ \E ok \in BOOLEAN : GenerateSettled(ok)
    \/ \E m \in {"color"} : SetBackgroundMode(m)
    \/ ConfirmBackground
    \/ ChangeBackground
    \/ AddText

GenerateSpec == Init /\ [][GenerateNext]_vars

\* the two phases in each of the three background modes
PhaseNext ==
    \/ \E v \in {"wide"} : cm.video = None /\ SetVideo(v)
    \/ \E m \in Modes : SetBackgroundMode(m)
    \/ \E f \in BagToSet(fetches) : FrameLoaded(f)
    \/ ConfirmBackground
    \/ \E u \in BagToSet(installs) : ConfirmBackgroundInstalled(u)
    \/ ChangeBackground

PhaseSpec == Init /\ [][PhaseNext]_vars

\* the zoom, in both phases: over the frame of a video with the overlay
\* dragged, and over the confirmed background with a text
ZoomNext ==
    \/ \E v \in {"wide"} : cm.video = None /\ SetVideo(v)
    \/ \E m \in {"image"} : cm.workflowPhase = "background" /\ SetBackgroundMode(m)
    \/ \E f \in BagToSet(fetches) : FrameLoaded(f)
    \/ \E target \in {<<Px(300), Px(60)>>} : OverlayMoving(target)
    \/ \E z \in {50, 100, 160} : SetZoom(z)
    \/ ConfirmBackground
    \/ \E u \in BagToSet(installs) : ConfirmBackgroundInstalled(u)
    \/ cm.workflowPhase = "elements" /\ AddText

ZoomSpec == Init /\ [][ZoomNext]_vars

\* the crop: the overlay is dragged and zoomed over the frame of a video,
\* and the background is confirmed
CropNext ==
    \/ \E v \in {"wide", "tall"} : cm.video = None /\ SetVideo(v)
    \/ \E m \in {"image"} : cm.workflowPhase = "background" /\ SetBackgroundMode(m)
    \/ \E f \in BagToSet(fetches) : FrameLoaded(f)
    \/ \E target \in DragTargets : OverlayMoving(target)
    \/ \E z \in {50, 100, 150} : SetZoom(z)
    \/ ConfirmBackground
    \/ \E u \in BagToSet(installs) : ConfirmBackgroundInstalled(u)

CropSpec == Init /\ [][CropNext]_vars

\* the frame requests, when a frame can fail to load
FailNext ==
    \/ FetchNext
    \/ \E f \in BagToSet(fetches) : FrameFailed(f)

FailSpec == Init /\ [][FailNext]_vars

---------------------------------------------------------------------------
(* What the claims observe *)

overlay == cm.heap[cm.selectionOverlay]
frame == Get(cm.frameDisplayInfo)

\* a selection overlay and a FrameDisplayInfo both exist
OverlayShown == cm.selectionOverlay # 0 /\ cm.frameDisplayInfo # None

FitsAcross == overlay.width <= frame.displayWidth
FitsDown == overlay.height <= frame.displayHeight

ContainedAcross ==
    /\ frame.displayLeft <= overlay.left
    /\ overlay.left + overlay.width <= frame.displayLeft + frame.displayWidth

ContainedDown ==
    /\ frame.displayTop <= overlay.top
    /\ overlay.top + overlay.height <= frame.displayTop + frame.displayHeight

\* the zoom percent z brought to the nearest bound of [50, 150]
NearestZoom(z) == IF z < 50 THEN 50 ELSE IF z > 150 THEN 150 ELSE z

---------------------------------------------------------------------------
(* C1: containment of the overlay in the displayed frame *)

\* C1, as claimed: in every reachable state in which a selection overlay and a
\* FrameDisplayInfo both exist, the overlay rectangle lies within the
\* displayed frame on both axes.
C1_OverlayAlwaysContained ==
    OverlayShown => ContainedAcross /\ ContainedDown

\* C1, amended: in every reachable state in which a selection overlay and a
\* FrameDisplayInfo both exist, the overlay lies within the displayed frame
\* along each axis on which it is no larger than the displayed frame.
C1_OverlayContainedWhereItFits ==
    OverlayShown =>
        /\ FitsAcross => ContainedAcross
        /\ FitsDown => ContainedDown

\* a zoom that followed a drag: the overlay fits the frame of the wide video
\* and is away from the centre of the canvas
C1_Witness ==
    /\ OverlayShown
    /\ lastOp[1] = "setZoom"
    /\ frame.originalWidth = FrameWidth("wide")
    /\ FitsAcross /\ FitsDown
    /\ 2 * overlay.left + overlay.width # cm.canvasWidth

---------------------------------------------------------------------------
(* C2: the containment constraint after a drag *)

\* C2, as claimed: after the overlay is dragged to any target and the
\* constraint has run, the overlay lies within the displayed frame on both
\* axes, whatever the frame size and the zoom.
C2_MovedOverlayContained ==
    (lastOp[1] = "overlayMoved" /\ OverlayShown) =>
        ContainedAcross /\ ContainedDown

\* C2, amended: after the overlay is dragged to any target and the constraint
\* has run, the overlay lies within the displayed frame along each axis on
\* which it is no larger than the displayed frame; along an axis on which it
\* is larger, its far edge is on the far edge of the displayed frame.
C2_MovedOverlayContainedOrPinned ==
    (lastOp[1] = "overlayMoved" /\ OverlayShown) =>
        /\ IF FitsAcross THEN ContainedAcross
           ELSE overlay.left + overlay.width
                    = frame.displayLeft + frame.displayWidth
        /\ IF FitsDown THEN ContainedDown
           ELSE overlay.top + overlay.height
                    = frame.displayTop + frame.displayHeight

\* a drag past the right and bottom edges of a frame the overlay fits: the
\* constraint has brought the overlay back to those edges
C2_Witness ==
    /\ OverlayShown
    /\ lastOp = <<"overlayMoved", <<Px(900), Px(700)>>>>
    /\ FitsAcross /\ FitsDown
    /\ overlay.left + overlay.width = frame.displayLeft + frame.displayWidth
    /\ overlay.top + overlay.height = frame.displayTop + frame.displayHeight

---------------------------------------------------------------------------
(* C3: the zoom clamp and the 2:3 ratio *)

\* C3: whenever setZoom(z) runs with an overlay and a frame present, the zoom
\* factor it stores is z/100 clamped to [0.5, 1.5], the overlay's height
\* becomes 400 times that factor, three times its width is twice its height,
\* and the whole result is that of setZoom at the nearest bound of [50, 150].
C3_ZoomClampedRatioKept ==
    [][(lastOp'[1] = "setZoom" /\ OverlayShown) =>
          LET z == lastOp'[2]
              o == cm'.heap[cm'.selectionOverlay]
          IN  /\ cm'.overlayZoom = NearestZoom(z)
              /\ 100 * o.height = Px(400) * NearestZoom(z)
              /\ 3 * o.width = 2 * o.height
              /\ cm' = Collect(setZoom(cm, NearestZoom(z)))]_vars

\* setZoom(160) has run on a shown overlay: the factor is 1.5, the height 600
C3_Witness ==
    /\ OverlayShown
    /\ lastOp = <<"setZoom", 160>>
    /\ cm.overlayZoom = 150
    /\ overlay.height = Px(600)
    /\ overlay.width = Px(400)

---------------------------------------------------------------------------
(* C4: confirm and reset in the wrong phase *)

\* C4: a confirmBackground call that finds the phase "elements", and a
\* resetToBackgroundPhase call that finds the phase "background", change
\* nothing: the phase, the snapshot, the objects of the scene, the size of the
\* surface and the background settings are as before, and so are the image
\* loads in flight.
C4_WrongPhaseCallsChangeNothing ==
    [][((lastOp'[1] = "confirmBackground" /\ cm.workflowPhase = "elements")
        \/ (lastOp'[1] = "resetToBackgroundPhase"
               /\ cm.workflowPhase = "background")) =>
          /\ cm' = cm
          /\ fs' = fs
          /\ fetches' = fetches
          /\ installs' = installs]_vars

\* confirmBackground has run in the elements phase, with a snapshot taken and
\* an element on the canvas
C4_Witness ==
    /\ lastOp = <<"confirmBackground", "elements">>
    /\ cm.workflowPhase = "elements"
    /\ cm.lockedBackgroundData # None
    /\ Elements(cm) # <<>>

---------------------------------------------------------------------------
(* C5: the snapshot is taken once *)

\* C5: a snapshot, once taken, is not modified until the reset discards it:
\* from a state that holds a snapshot every step, a second confirm click
\* during the install of the captured image included, leads to a state
\* that holds the same snapshot or none.
C5_SnapshotImmutable ==
    [][(cm.lockedBackgroundData # None /\ cm'.lockedBackgroundData # None) =>
          cm'.lockedBackgroundData = cm.lockedBackgroundData]_vars

---------------------------------------------------------------------------
(* C6: no overlay, mask or FrameDisplayInfo while elements are composed *)

\* C6: whenever the phase is "elements" there is no selection overlay, no
\* dark-mask rectangle and no FrameDisplayInfo, also when a frame load that
\* was started before the confirm completes after it.
C6_NoOverlayInElementsPhase ==
    cm.workflowPhase = "elements" =>
        /\ cm.selectionOverlay = 0
        /\ cm.darkMaskRects = <<>>
        /\ cm.frameDisplayInfo = None
        /\ \A i \in 1..Len(cm.objects) :
               cm.heap[cm.objects[i]].type # "rect"

---------------------------------------------------------------------------
(* C7: no text or line while the background is selected *)

\* C7: whenever the phase is "background" the canvas holds no text element
\* and no line element.
C7_NoElementsInBackgroundPhase ==
    cm.workflowPhase = "background" => Elements(cm) = <<>>

---------------------------------------------------------------------------
(* C8: what a reset after a confirm leaves *)

\* the captured-background images on the canvas
CapturedOnCanvas ==
    {i \in 1..Len(cm.objects) :
        /\ cm.heap[cm.objects[i]].type = "image"
        /\ cm.heap[cm.objects[i]].kind = "captured"}

\* C8: a resetToBackgroundPhase call that finds the phase "elements" leaves
\* the phase "background", no snapshot, no text or line element and no
\* captured-background image on the canvas; and the frame load that completes
\* in the background phase leaves an overlay centred on the canvas.
C8_ResetRestoresBackgroundPhase ==
    /\ (lastOp = <<"resetToBackgroundPhase", "elements">>) =>
          /\ cm.workflowPhase = "background"
          /\ cm.lockedBackgroundData = None
          /\ Elements(cm) = <<>>
          /\ CapturedOnCanvas = {}
    /\ (lastOp[1] = "frameLoaded" /\ cm.workflowPhase = "background") =>
          /\ cm.selectionOverlay # 0
          /\ 2 * overlay.left + overlay.width = cm.canvasWidth
          /\ 2 * overlay.top + overlay.height = cm.canvasHeight

---------------------------------------------------------------------------
(* C9: the elements phase of image mode has a captured background *)

\* C9: whenever the phase is "elements" and the snapshot's mode is "image",
\* the snapshot holds a captured raster and the background object of the
\* canvas is that raster.
C9_ImageSnapshotHasInstalledRaster ==
    (/\ cm.workflowPhase = "elements"
     /\ cm.lockedBackgroundData # None
     /\ Get(cm.lockedBackgroundData).mode = "image") =>
        /\ Get(cm.lockedBackgroundData).capturedImageUrl # None
        /\ cm.frameImage # 0
        /\ cm.heap[cm.frameImage].kind = "captured"
        /\ cm.heap[cm.frameImage].url
               = Get(Get(cm.lockedBackgroundData).capturedImageUrl)

---------------------------------------------------------------------------
(* C10: frame loads in flight *)

\* C10: at most one frame load is in flight at any time, whichever path
\* started it: the slider's debounce timer, the step buttons and arrow keys,
\* or a change of the background mode to "image".
C10_AtMostOneFetchInFlight ==
    BagCardinality(fetches) <= 1

---------------------------------------------------------------------------
(* C11: a request made during a load is taken up when the load completes *)

\* the load the FrameSlider waits for, for the timestamp ts
SliderFetch(ts) == [video |-> Get(cm.video), timestamp |-> ts, awaited |-> TRUE]

\* nothing is left to happen without user input: no load in flight, no
\* debounce timer running
Quiescent == fetches = EmptyBag /\ ~fs.debounceTimer

\* C11, as claimed: when the load the FrameSlider waits for completes and the
\* pending timestamp differs from that load's, a load for the pending
\* timestamp is in flight after the step; and once nothing is left to happen,
\* the FrameSlider is not loading and the timestamp last handed to the engine
\* is the latest requested one.
C11_FollowUpFetchAlways ==
    /\ [][(/\ lastOp'[1] = "frameLoaded"
           /\ lastOp'[2].awaited
           /\ fs.pendingTimestamp # lastOp'[2].timestamp) =>
             BagIn(SliderFetch(fs.pendingTimestamp), fetches')]_vars
    /\ [](Quiescent =>
             /\ ~fs.isLoading
             /\ fs.pendingTimestamp # NoTimestamp =>
                    cm.currentTimestamp = fs.pendingTimestamp)

\* C11, amended: the follow-up load is in flight after the step if the
\* background mode is then "image"; in another mode the engine only records
\* the pending timestamp.  The rest is as claimed.
C11_FollowUpFetchInImageMode ==
    /\ [][(/\ lastOp'[1] = "frameLoaded"
           /\ lastOp'[2].awaited
           /\ fs.pendingTimestamp # lastOp'[2].timestamp) =>
             /\ cm'.currentTimestamp = fs.pendingTimestamp
             /\ cm'.backgroundMode = "image" =>
                    /\ BagIn(SliderFetch(fs.pendingTimestamp), fetches')
                    /\ fs'.isLoading]_vars
    /\ [](Quiescent =>
             /\ ~fs.isLoading
             /\ fs.pendingTimestamp # NoTimestamp =>
                    cm.currentTimestamp = fs.pendingTimestamp)

\* the awaited load for timestamp 1 has completed after a request for 0: the
\* follow-up load for 0 is in flight
C11_Witness ==
    /\ cm.video # None
    /\ lastOp = <<"frameLoaded", SliderFetch(1)>>
    /\ fs.pendingTimestamp = 0
    /\ cm.backgroundMode = "image"
    /\ BagIn(SliderFetch(0), fetches)
    /\ fs.isLoading

---------------------------------------------------------------------------
(* C12: results of superseded loads *)

\* C12, as claimed: a load that completes for a timestamp other than the
\* latest pending one leaves the scene as it was: the frame image, the
\* FrameDisplayInfo, the overlay and the mask are not replaced.
C12_SupersededResultDiscarded ==
    [][(/\ lastOp'[1] = "frameLoaded"
        /\ fs.pendingTimestamp # NoTimestamp
        /\ lastOp'[2].timestamp # fs.pendingTimestamp) =>
          /\ cm'.heap = cm.heap
          /\ cm'.objects = cm.objects
          /\ cm'.frameDisplayInfo = cm.frameDisplayInfo]_vars

---------------------------------------------------------------------------
(* C13: the debounce of the slider, and the immediate fetch of a step *)

\* a video and its duration are set: the slider and the step buttons work
SliderLoaded == cm.video # None /\ fs.duration # 0

\* exactly one load was issued in the step, the awaited one for timestamp ts
OneFetchIssued(ts) ==
    fetches' = fetches (+) SetToBag({SliderFetch(ts)})

\* a slider change issues no load; it leaves one timer running and its value
\* pending, so that a burst of changes ends with one timer for the last value
SliderChangeOnlyArms ==
    lastOp'[1] = "sliderChange" =>
        /\ fetches' = fetches
        /\ fs'.debounceTimer
        /\ fs'.pendingTimestamp = lastOp'[2]
        /\ fs'.sliderValue = lastOp'[2]

\* C13, as claimed: a burst of slider changes issues no load until the timer
\* fires after the quiet period, and then exactly one, for the last slider
\* value (the pending one); a step issues the load for the stepped value in
\* the step itself.
C13_BurstGivesOneFetch ==
    [][/\ SliderChangeOnlyArms
       /\ (SliderLoaded /\ lastOp'[1] = "debounceFired") =>
              OneFetchIssued(fs.pendingTimestamp)
       /\ (SliderLoaded /\ lastOp'[1] = "stepFrame") =>
              OneFetchIssued(fs'.sliderValue)]_vars

\* the FrameSlider is not waiting for a load and the engine shows frames
SliderIdleInImageMode ==
    SliderLoaded /\ cm.backgroundMode = "image" /\ ~fs.isLoading

\* C13, amended: as claimed while the background mode is "image" and no load
\* of the slider is in flight.
C13_BurstGivesOneFetchWhenIdle ==
    [][/\ SliderChangeOnlyArms
       /\ (SliderIdleInImageMode /\ lastOp'[1] = "debounceFired") =>
              OneFetchIssued(fs.pendingTimestamp)
       /\ (SliderIdleInImageMode /\ lastOp'[1] = "stepFrame") =>
              /\ OneFetchIssued(fs'.sliderValue)
              /\ fs'.sliderValue =
                     Max(0, Min(fs.duration, fs.sliderValue + lastOp'[2]))]_vars

\* the timer has fired after the slider was moved to 1: the one load in flight
\* is the load for 1
C13_Witness ==
    /\ cm.video # None
    /\ lastOp = <<"debounceFired">>
    /\ fs.pendingTimestamp = 1
    /\ fetches = SetToBag({SliderFetch(1)})

---------------------------------------------------------------------------
(* C14: the reference rectangle of the export *)

surface == [left |-> 0, top |-> 0, width |-> cm.canvasWidth, height |-> cm.canvasHeight]

\* C14: with a snapshot in the elements phase the reference rectangle is the
\* whole surface; in the background phase it is the overlay's rectangle, or
\* the whole surface without an overlay; the exported canvasWidth and
\* canvasHeight are the reference's width and height.
C14_ExportReference ==
    LET ref == exportReference(cm)
        data == exportPosterData(cm)
    IN  /\ (cm.workflowPhase = "elements" /\ cm.lockedBackgroundData # None) =>
               ref = surface
        /\ (cm.workflowPhase = "background" /\ cm.selectionOverlay # 0) =>
               ref = [left |-> overlay.left, top |-> overlay.top,
                      width |-> overlay.width, height |-> overlay.height]
        /\ (cm.workflowPhase = "background" /\ cm.selectionOverlay = 0) =>
               ref = surface
        /\ data.canvasWidth = ref.width
        /\ data.canvasHeight = ref.height

\* the background phase with an overlay smaller than the surface and a text
\* element: the export's canvasWidth is the overlay's width
C14_Witness ==
    /\ cm.workflowPhase = "background"
    /\ cm.selectionOverlay # 0
    /\ overlay.width < cm.canvasWidth
    /\ Len(exportPosterData(cm).textLayers) > 0
    /\ exportPosterData(cm).canvasWidth = overlay.width

---------------------------------------------------------------------------
(* C15: the background fields of the export during the elements phase *)

\* the fields of the export that describe the background
ExportBackground(s) ==
    LET data == exportPosterData(s)
    IN  [backgroundMode |-> data.backgroundMode,
         backgroundColor |-> data.backgroundColor,
         gradientColors |-> data.gradientColors,
         gradientDirection |-> data.gradientDirection,
         video |-> data.video,
         timestamp |-> data.timestamp,
         selectionCoords |-> data.selectionCoords,
         blur |-> data.blur]

\* the calls that change the live settings of the background
LiveSetters ==
    {"setBackgroundColor", "setGradientColors", "setGradientDirection",
     "setBlur", "setBackgroundMode", "setVideo", "setFrame"}

\* C15: a call that changes the live settings during the elements phase leaves
\* the background fields of the export (mode, colour, gradient colours and
\* direction, source, timestamp, crop rectangle, blur) as they were.
C15_LiveMutationNotExported ==
    [][(cm.workflowPhase = "elements" /\ lastOp'[1] \in LiveSetters) =>
           ExportBackground(cm') = ExportBackground(cm)]_vars

---------------------------------------------------------------------------
(* C16: what the export has entries for *)

\* the objects of the scene of the given types, in scene order
SceneObjects(types) ==
    LET ids == SelectSeq(cm.objects, LAMBDA id : cm.heap[id].type \in types)
    IN  [i \in 1..Len(ids) |-> cm.heap[ids[i]]]

\* C16: textLayers has exactly one entry per text element and lineElements
\* one per line element, in scene order; the frame image, the overlay, the
\* mask rectangles and every other object have no entry.
C16_ExportEntries ==
    LET data == exportPosterData(cm)
        ref == exportReference(cm)
        texts == SceneObjects({"i-text", "textbox"})
        lines == SceneObjects({"line"})
    IN  /\ Len(data.textLayers) = Len(texts)
        /\ \A i \in 1..Len(texts) :
               /\ data.textLayers[i].content = texts[i].text
               /\ data.textLayers[i].fill = texts[i].fill
               /\ data.textLayers[i].fontSize = texts[i].fontSize
               /\ data.textLayers[i].top =
                      Rat(getBoundingRect(texts[i]).top - ref.top, ref.height)
        /\ Len(data.lineElements) = Len(lines)
        /\ \A i \in 1..Len(lines) :
               /\ data.lineElements[i].stroke = lines[i].stroke
               /\ data.lineElements[i].x1 =
                      Rat(exportLinePoints(lines[i])[1].x - ref.left, ref.width)
               /\ data.lineElements[i].y1 =
                      Rat(exportLinePoints(lines[i])[1].y - ref.top, ref.height)

\* a text element on the canvas together with the frame image, the overlay and
\* the four mask rectangles: the export has the one text entry
C16_Witness ==
    /\ cm.frameImage # 0
    /\ cm.selectionOverlay # 0
    /\ Len(cm.darkMaskRects) = 4
    /\ Len(cm.objects) = 7
    /\ Len(exportPosterData(cm).textLayers) = 1
    /\ exportPosterData(cm).lineElements = <<>>

---------------------------------------------------------------------------
(* C17: the mask and the overlay tile the canvas *)

\* the four mask rectangles: above, below, left of and right of the overlay
maskRects == [i \in 1..Len(cm.darkMaskRects) |-> cm.heap[cm.darkMaskRects[i]]]

MaskShown == cm.selectionOverlay # 0 /\ Len(cm.darkMaskRects) = 4

OverlayInsideCanvas ==
    /\ 0 <= overlay.left
    /\ overlay.left + overlay.width <= cm.canvasWidth
    /\ 0 <= overlay.top
    /\ overlay.top + overlay.height <= cm.canvasHeight

Area(r) == r.width * r.height

\* two rectangles have no point of positive area in common
Disjoint(a, b) ==
    \/ a.left + a.width <= b.left
    \/ b.left + b.width <= a.left
    \/ a.top + a.height <= b.top
    \/ b.top + b.height <= a.top
    \/ Area(a) = 0
    \/ Area(b) = 0

\* C17: when the overlay lies inside the canvas, the areas of the four mask
\* rectangles and of the overlay add up to the area of the canvas, and no two
\* of the five rectangles overlap.
C17_MaskTilesCanvas ==
    (MaskShown /\ OverlayInsideCanvas) =>
        LET five == maskRects \o <<overlay>>
        IN  /\ Area(five[1]) + Area(five[2]) + Area(five[3]) + Area(five[4])
                   + Area(five[5]) = cm.canvasWidth * cm.canvasHeight
            /\ \A i, j \in 1..5 : i < j => Disjoint(five[i], five[j])

---------------------------------------------------------------------------
(* C18: the dimensions of the mask rectangles *)

\* C18: in every reachable state each of the four mask rectangles has a width
\* and a height of at least zero.
C18_MaskDimensionsNonNegative ==
    \A i \in 1..Len(maskRects) :
        maskRects[i].width >= 0 /\ maskRects[i].height >= 0

---------------------------------------------------------------------------
(* C19: the crop rectangle for degenerate input *)

fallbackCoords == [left |-> RZero, top |-> RZero, width |-> ROne, height |-> ROne]

\* the overlay or the FrameDisplayInfo is absent, or the frame is displayed
\* with a width or a height of zero
DegenerateInput ==
    \/ cm.selectionOverlay = 0
    \/ cm.frameDisplayInfo = None
    \/ frame.displayWidth = 0
    \/ frame.displayHeight = 0

\* C19: for every degenerate input the normalised crop rectangle is the
\* fallback (0, 0, 1, 1), and none of its fields is the result of a division
\* by zero.
C19_DegenerateCropIsFallback ==
    DegenerateInput => _getSelectionCoords(cm) = fallbackCoords

---------------------------------------------------------------------------
(* C20: the fit of the frame into the canvas *)

\* C20: when a frame of positive width and height has been loaded, it is
\* displayed no wider and no higher than the canvas, as wide or as high as the
\* canvas, with the aspect ratio of the source, and centred.
C20_FrameFitted ==
    (lastOp[1] = "frameLoaded" /\ frame.originalWidth > 0
                               /\ frame.originalHeight > 0) =>
        /\ frame.displayWidth <= cm.canvasWidth
        /\ frame.displayHeight <= cm.canvasHeight
        /\ \/ frame.displayWidth = cm.canvasWidth
           \/ frame.displayHeight = cm.canvasHeight
        /\ frame.displayWidth * frame.originalHeight =
               frame.displayHeight * frame.originalWidth
        /\ 2 * frame.displayLeft = cm.canvasWidth - frame.displayWidth
        /\ 2 * frame.displayTop = cm.canvasHeight - frame.displayHeight

\* a frame higher than the canvas is wide has been loaded: it fills the height
\* of the canvas and leaves room on both sides
C20_Witness ==
    /\ lastOp[1] = "frameLoaded"
    /\ lastOp[2].video = "tall"
    /\ frame.displayHeight = cm.canvasHeight
    /\ frame.displayWidth < cm.canvasWidth
    /\ frame.displayLeft > 0

---------------------------------------------------------------------------
(* C21: the overlay dragged to left = -50 on the 1920x800 frame *)

\* the overlay at zoom 100% on the 1920x800 frame fitted into the 800x500
\* canvas has just been dragged to left = -50
DraggedLeftOfWideFrame ==
    /\ lastOp[1] = "overlayMoved"
    /\ lastOp[2][1] = Px(0 - 50)
    /\ OverlayShown
    /\ cm.canvasWidth = Px(imageModeWidth)
    /\ cm.canvasHeight = Px(imageModeHeight)
    /\ frame.originalWidth = 1920
    /\ frame.originalHeight = 800
    /\ frame.displayWidth = Px(800)
    /\ 3 * frame.displayHeight = Px(1000)
    /\ 3 * frame.displayTop = Px(250)
    /\ 3 * overlay.width = Px(800)
    /\ overlay.height = Px(400)

\* C21, as claimed: the overlay ends at left = 0, and the exported crop
\* rectangle has left = 0 and top = (overlay.top - displayTop) / displayHeight.
C21_DragLeftScenario ==
    DraggedLeftOfWideFrame =>
        /\ overlay.left = 0
        /\ exportPosterData(cm).selectionCoords.left = RZero
        /\ exportPosterData(cm).selectionCoords.top =
               Rat(overlay.top - frame.displayTop, frame.displayHeight)

\* C21, amended: the exported top is that quotient clamped to [0, 1]; the
\* overlay is higher than the displayed frame and ends above it, so the
\* exported top is 0.
C21_DragLeftScenarioClamped ==
    DraggedLeftOfWideFrame =>
        /\ overlay.left = 0
        /\ exportPosterData(cm).selectionCoords.left = RZero
        /\ exportPosterData(cm).selectionCoords.top =
               Clamp01(Rat(overlay.top - frame.displayTop, frame.displayHeight))
        /\ overlay.top < frame.displayTop
        /\ exportPosterData(cm).selectionCoords.top = RZero

C21_Witness ==
    /\ DraggedLeftOfWideFrame
    /\ overlay.left = 0
    /\ 3 * overlay.top = Px(50)

---------------------------------------------------------------------------
(* C22: where an exported text starts, and how wide it is *)

\* the left edge of the container of a text: the object is positioned by its
\* centre, and its container is its width times its horizontal scale wide
ContainerWidth(obj) == obj.width * obj.scaleX
ContainerLeft(obj) == obj.left - Div(ContainerWidth(obj), 2)

\* C22: an exported text's left is (L - refLeft) / refW when it is aligned
\* left, (L + (W - M) / 2 - refLeft) / refW when centred and
\* (L + W - M - refLeft) / refW when aligned right, and its width is M / refW:
\* L the left edge of its container, W the container's width after scale, M
\* the measured width of its widest line.
C22_TextExport ==
    LET data == exportPosterData(cm)
        ref == exportReference(cm)
        texts == SceneObjects({"i-text", "textbox"})
    IN  /\ Len(data.textLayers) = Len(texts)
        /\ \A i \in 1..Len(texts) :
               LET L == ContainerLeft(texts[i])
                   W == ContainerWidth(texts[i])
                   M == measureText(texts[i])
               IN  /\ texts[i].textAlign = "left" =>
                          data.textLayers[i].left = Rat(L - ref.left, ref.width)
                   /\ texts[i].textAlign = "center" =>
                          data.textLayers[i].left =
                              Rat(L + Div(W - M, 2) - ref.left, ref.width)
                   /\ texts[i].textAlign = "right" =>
                          data.textLayers[i].left =
                              Rat(L + W - M - ref.left, ref.width)
                   /\ data.textLayers[i].width = Rat(M, ref.width)

\* a text on the frame, the overlay the reference: scaled to twice its size,
\* moved and aligned right
C22_Witness ==
    /\ cm.selectionOverlay # 0
    /\ exportReference(cm).left # 0
    /\ \E j \in 1..Len(cm.objects) :
           /\ cm.heap[j].type = "textbox"
           /\ cm.heap[j].textAlign = "right"
           /\ cm.heap[j].scaleX = 2
           /\ cm.heap[j].left = Px(300)
    /\ Len(exportPosterData(cm).textLayers) = 1

---------------------------------------------------------------------------
(* C23: the exported points of a line *)

\* the lines of the scene, in scene order
SceneLines == SceneObjects({"line"})

\* a point of a line, given relative to its centre and along its own axes,
\* on the surface: scaled, turned by the line's angle (0 or 90 degrees) about
\* the centre, and moved with the centre
OnSurface(obj, x, y) ==
    LET center == getCenterPoint(obj)
    IN  IF obj.angle = 0
        THEN [x |-> center.x + x * obj.scaleX, y |-> center.y + y * obj.scaleY]
        ELSE [x |-> center.x - y * obj.scaleY, y |-> center.y + x * obj.scaleX]

\* C23: the exported points of every line are its two local points mapped
\* through its transform (scale, rotation, translation) to the surface, then
\* shifted by the reference origin and divided by the reference width and
\* height; an unrotated, unscaled vertical line exported against a reference
\* at the origin has both points at the x of its translation over refW, and
\* their y, times refH, as far apart as the line is long.
C23_LineExport ==
    LET data == exportPosterData(cm)
        ref == exportReference(cm)
    IN  /\ Len(data.lineElements) = Len(SceneLines)
        /\ \A i \in 1..Len(SceneLines) :
               LET obj == SceneLines[i]
                   local == calcLinePoints(obj)
                   p1 == OnSurface(obj, local.x1, local.y1)
                   p2 == OnSurface(obj, local.x2, local.y2)
                   out == data.lineElements[i]
               IN  /\ out.x1 = Rat(p1.x - ref.left, ref.width)
                   /\ out.y1 = Rat(p1.y - ref.top, ref.height)
                   /\ out.x2 = Rat(p2.x - ref.left, ref.width)
                   /\ out.y2 = Rat(p2.y - ref.top, ref.height)
                   /\ obj.angle = 0 /\ obj.scaleX = 1 /\ obj.scaleY = 1
                      /\ ref.left = 0 /\ ref.top = 0 =>
                          /\ out.x1 = Rat(calcTransformMatrix(obj).e, ref.width)
                          /\ out.x2 = out.x1
                          /\ out.y1 = Rat(obj.top, ref.height)
                          /\ out.y2 = Rat(obj.top + obj.height, ref.height)

\* two lines: one unrotated and unscaled that was moved, the other scaled to
\* twice its size and turned by a quarter turn, so that it is exported level
C23_Witness ==
    /\ Len(SceneLines) = 2
    /\ exportReference(cm).left = 0
    /\ SceneLines[1].angle = 0
    /\ SceneLines[1].scaleX = 1
    /\ SceneLines[1].left = Px(300)
    /\ SceneLines[1].top = Px(200)
    /\ SceneLines[2].angle = 90
    /\ SceneLines[2].scaleX = 2
    /\ exportPosterData(cm).lineElements[2].y1 = exportPosterData(cm).lineElements[2].y2
    /\ exportPosterData(cm).lineElements[2].x1 # exportPosterData(cm).lineElements[2].x2

---------------------------------------------------------------------------
(* C24: the exported stroke width of a line *)

\* C24: the exported stroke width of every line is its stroke width times its
\* scale factor, divided by the reference width: the exported value times the
\* reference width is the scaled stroke width.
C24_StrokeWidthNormalised ==
    LET data == exportPosterData(cm)
        ref == exportReference(cm)
    IN  \A i \in 1..Len(SceneLines) :
            data.lineElements[i].strokeWidth * ref.width =
                Px(SceneLines[i].strokeWidth) * SceneLines[i].scaleX

---------------------------------------------------------------------------
(* C25: the stacking order *)

\* the place of an object of the canvas in the stacking order, 1 at the back
Place(id) == Index(cm.objects, id)

\* the scene was just changed by a frame load (which creates the mask), by
\* addText or by addLine
SceneMutated == lastOp[1] \in {"frameLoaded", "addText", "addLine"}

\* C25: after every scene mutation the background image is below the four
\* mask rectangles, these are below the overlay, and the overlay is below
\* every text and line element.
C25_StackingOrder ==
    SceneMutated =>
        /\ \A m \in Range(cm.darkMaskRects) :
               /\ cm.frameImage # 0 => Place(cm.frameImage) < Place(m)
               /\ cm.selectionOverlay # 0 => Place(m) < Place(cm.selectionOverlay)
        /\ \A e \in Range(Elements(cm)) :
               cm.selectionOverlay # 0 => Place(cm.selectionOverlay) < Place(e)

---------------------------------------------------------------------------
(* C26: a frame that fails to load *)

\* the frame on display: none, or which frame of which video
ShownFrame(s) ==
    IF s.frameImage = 0 THEN None
    ELSE Some([kind |-> s.heap[s.frameImage].kind,
               video |-> s.heap[s.frameImage].video,
               timestamp |-> s.heap[s.frameImage].timestamp])

\* C26: a frame fetch that fails leaves the frame on display, the
\* FrameDisplayInfo, the overlay and the mask as they were, and the
\* FrameSlider's in-flight flag false when it was the slider's fetch.
C26_FailedFetchLeavesState ==
    [][lastOp'[1] = "frameFailed" =>
          /\ lastOp'[2].awaited => ~fs'.isLoading
          /\ ShownFrame(cm') = ShownFrame(cm)
          /\ cm'.frameDisplayInfo = cm.frameDisplayInfo
          /\ cm'.selectionOverlay = cm.selectionOverlay
          /\ cm'.darkMaskRects = cm.darkMaskRects]_vars

---------------------------------------------------------------------------
(* C27: a request for a poster that fails *)

\* C27: a failed request for a poster is reported in the status line and
\* leaves the engine (phase, snapshot, scene objects) as it was; the generate
\* button is enabled again after a success and after a failure; no request is
\* made again by itself; and while a request is in flight no second one is
\* started.
C27_FailedGeneration ==
    [][/\ lastOp'[1] = "generateSettled" =>
              /\ cm' = cm
              /\ ~app'.btnGenerateDisabled
              /\ app'.sent = app.sent
              /\ app'.inFlight = <<>>
              /\ ~lastOp'[2] => app'.generationStatus = "Error"
       /\ Len(app'.inFlight) <= 1
       /\ app'.sent > app.sent => app.inFlight = <<>> /\ lastOp'[1] = "generateClicked"
      ]_vars

\* a request made from the elements phase, with a text on the confirmed
\* background, has failed; it was the second request, made by a click after
\* the first had been answered
C27_Witness ==
    /\ lastOp = <<"generateSettled", FALSE>>
    /\ app.generationStatus = "Error"
    /\ ~app.btnGenerateDisabled
    /\ app.sent = 2
    /\ cm.workflowPhase = "elements"
    /\ cm.lockedBackgroundData # None
    /\ Len(Elements(cm)) = 1

---------------------------------------------------------------------------
(* C28: a request for a poster without a video or without a filename *)

\* C28: a click on generate with no video selected, or with a filename that
\* is empty once trimmed, is rejected with a message before exportPosterData
\* is called and before a request is made; the engine is as it was.
C28_ValidationFirst ==
    [][lastOp'[1] = "generateClicked"
       /\ (app.selectedVideo = None \/ Trim(app.outputFilename) = <<>>) =>
          /\ app'.alert \in {"Please select a video first", "Please enter a filename"}
          /\ app'.exported = app.exported
          /\ app'.sent = app.sent
          /\ app'.inFlight = app.inFlight
          /\ ~app'.btnGenerateDisabled
          /\ cm' = cm]_vars

\* a click on generate with a video selected and a blank filename was
\* rejected, after a request with a filename had been made and answered
C28_Witness ==
    /\ lastOp = <<"generateClicked">>
    /\ app.selectedVideo # None
    /\ app.outputFilename = <<" ">>
    /\ app.alert = "Please enter a filename"
    /\ app.exported = 1
    /\ app.inFlight = <<>>

---------------------------------------------------------------------------
(* C29: the crop rectangle is a part of the frame *)

\* p + q
RSum(p, q) == Rat(p[1] * q[2] + q[1] * p[2], p[2] * q[2])

\* a number between 0 and 1
InUnit(p) == p[2] > 0 /\ RLe(RZero, p) /\ RLe(p, ROne)

IsCrop(c) ==
    /\ InUnit(c.left) /\ InUnit(c.top) /\ InUnit(c.width) /\ InUnit(c.height)
    /\ InUnit(RSum(c.left, c.width))
    /\ InUnit(RSum(c.top, c.height))

---------------------------------------------------------------------------
(* C30: the captured background and the crop of the snapshot *)

\* a fraction p of n pixels
Part(p, n) == Rat(p[1] * n, p[2])

\* C30: at a confirm in image mode the region of the frame drawn into the
\* captured background (cropX, cropY, cropW, cropH) is the region the crop of
\* the snapshot denotes: the crop times the size of the original frame.
C30_CaptureIsCrop ==
    [][lastOp'[1] = "confirmBackground" /\ cm'.lockedBackgroundData # None
       /\ cm.frameDisplayInfo # None =>
          LET locked == Get(cm'.lockedBackgroundData)
              crop == locked.selectionCoords
              original == Get(cm.frameDisplayInfo)
          IN  locked.capturedImageUrl # None =>
                  LET captured == Get(locked.capturedImageUrl)
                  IN  /\ captured.cropX = Part(crop.left, original.originalWidth)
                      /\ captured.cropY = Part(crop.top, original.originalHeight)
                      /\ captured.cropW = Part(crop.width, original.originalWidth)
                      /\ captured.cropH = Part(crop.height, original.originalHeight)
      ]_vars

---------------------------------------------------------------------------
(* C31: setZoom keeps the centre of the overlay *)

\* twice the centre of the overlay of s
Center2(s) ==
    LET o == s.heap[s.selectionOverlay]
    IN  <<2 * o.left + o.width, 2 * o.top + o.height>>

\* the overlay of s, resized for the zoom level and centred where it is,
\* lies inside the displayed frame
ResizedFits(s, zoomLevel) ==
    LET f == Get(s.frameDisplayInfo)
        h == overlayHeightAt(clampZoom(zoomLevel))
        w == overlayWidthOf(h)
        c == Center2(s)
    IN  /\ 2 * f.displayLeft <= c[1] - w
        /\ c[1] + w <= 2 * (f.displayLeft + f.displayWidth)
        /\ 2 * f.displayTop <= c[2] - h
        /\ c[2] + h <= 2 * (f.displayTop + f.displayHeight)

\* the text and line elements of s, in scene order
ElementObjects(s) == [i \in 1..Len(Elements(s)) |-> s.heap[Elements(s)[i]]]

\* C31: setZoom keeps the overlay's centre when the resized rectangle centred
\* on the previous centre fits inside the displayed frame; it changes nothing
\* but the zoom factor when there is no overlay or no FrameDisplayInfo; and it
\* never changes the phase, the snapshot or the text and line elements.
C31_ZoomKeepsCenter ==
    [][lastOp'[1] = "setZoom" =>
          /\ cm.selectionOverlay # 0 /\ cm.frameDisplayInfo # None
             /\ ResizedFits(cm, lastOp'[2]) => Center2(cm') = Center2(cm)
          /\ cm.selectionOverlay = 0 \/ cm.frameDisplayInfo = None =>
                 cm' = [cm EXCEPT !.overlayZoom = cm'.overlayZoom]
          /\ cm'.workflowPhase = cm.workflowPhase
          /\ cm'.lockedBackgroundData = cm.lockedBackgroundData
          /\ ElementObjects(cm') = ElementObjects(cm)]_vars

\* the overlay, dragged off the centre of the canvas, was zoomed to 50%,
\* kept its centre and touches no edge of the displayed frame
C31_Witness ==
    /\ lastOp = <<"setZoom", 50>>
    /\ OverlayShown
    /\ overlay.height = Px(200)
    /\ 2 * overlay.left + overlay.width # cm.canvasWidth
    /\ frame.displayLeft < overlay.left
    /\ overlay.left + overlay.width < frame.displayLeft + frame.displayWidth
    /\ frame.displayTop < overlay.top
    /\ overlay.top + overlay.height < frame.displayTop + frame.displayHeight

---------------------------------------------------------------------------
(* C32: the constraint on an overlay larger than the displayed frame *)

\* the overlay after a drag to target and the handler's constraint
Dragged(target) == overlayMoved(cm, target).heap[cm.selectionOverlay]

\* C32: when the overlay is wider (higher) than the displayed frame the
\* constraint pins it on that axis: the resulting left (top) is the same for
\* every drag target, and the constraint applied again changes nothing; when
\* the overlay fits on an axis and the target lies within the bounds on it,
\* the position on that axis is the target's.
C32_PinnedOrUnchanged ==
    OverlayShown =>
        \A t1 \in DragTargets :
            /\ ~FitsAcross =>
                   /\ \A t2 \in DragTargets : Dragged(t1).left = Dragged(t2).left
                   /\ _constrainOverlay(overlayMoved(cm, t1)).heap[cm.selectionOverlay].left
                          = Dragged(t1).left
            /\ ~FitsDown =>
                   /\ \A t2 \in DragTargets : Dragged(t1).top = Dragged(t2).top
                   /\ _constrainOverlay(overlayMoved(cm, t1)).heap[cm.selectionOverlay].top
                          = Dragged(t1).top
            /\ FitsAcross /\ frame.displayLeft <= t1[1]
               /\ t1[1] + overlay.width <= frame.displayLeft + frame.displayWidth =>
                   Dragged(t1).left = t1[1]
            /\ FitsDown /\ frame.displayTop <= t1[2]
               /\ t1[2] + overlay.height <= frame.displayTop + frame.displayHeight =>
                   Dragged(t1).top = t1[2]

\* an overlay higher than the displayed frame and not wider was dragged to
\* (300, 60): it is at left 300, and pinned with its lower edge on the frame's
C32_Witness ==
    /\ lastOp = <<"overlayMoved", <<Px(300), Px(60)>>>>
    /\ OverlayShown
    /\ FitsAcross /\ ~FitsDown
    /\ overlay.left = Px(300)
    /\ overlay.top # Px(60)
    /\ overlay.top + overlay.height = frame.displayTop + frame.displayHeight

---------------------------------------------------------------------------
(* C33: the mask follows the overlay *)

\* left, top, width and height of a rectangle
Box(r) == <<r.left, r.top, r.width, r.height>>

\* C33: in every state with an overlay and four mask rectangles the
\* rectangles are, dimensions floored at 0: above {0, 0, canvasW, overlay.top},
\* below {0, overlay.top + overlay.height, canvasW, canvasH - (overlay.top +
\* overlay.height)}, left {0, overlay.top, overlay.left, overlay.height},
\* right {overlay.left + overlay.width, overlay.top, canvasW - (overlay.left +
\* overlay.width), overlay.height}.
C33_MaskInSync ==
    MaskShown =>
        /\ Box(maskRects[1]) = <<0, 0, cm.canvasWidth, Max(0, overlay.top)>>
        /\ Box(maskRects[2]) =
               <<0, overlay.top + overlay.height, cm.canvasWidth,
                 Max(0, cm.canvasHeight - (overlay.top + overlay.height))>>
        /\ Box(maskRects[3]) =
               <<0, overlay.top, Max(0, overlay.left), overlay.height>>
        /\ Box(maskRects[4]) =
               <<overlay.left + overlay.width, overlay.top,
                 Max(0, cm.canvasWidth - (overlay.left + overlay.width)),
                 overlay.height>>

---------------------------------------------------------------------------
(* C34: the size of the canvas in the elements phase *)

\* C34: whenever the phase is elements the canvas has the size of the
\* poster, 400 x 600.
C34_PosterSizeInElementsPhase ==
    cm.workflowPhase = "elements" =>
        /\ cm.canvasWidth = Px(posterModeWidth)
        /\ cm.canvasHeight = Px(posterModeHeight)

---------------------------------------------------------------------------
(* C35: the size of the canvas after the return to the background phase *)

\* resetToBackgroundPhase has just run from the elements phase
RevertedFromElements == lastOp = <<"resetToBackgroundPhase", "elements">>

\* C35, as claimed: after resetToBackgroundPhase from the elements phase the
\* canvas has the wide size, 800 x 500, in every background mode.
C35_WideAfterRevert ==
    RevertedFromElements =>
        /\ cm.canvasWidth = Px(imageModeWidth)
        /\ cm.canvasHeight = Px(imageModeHeight)

\* C35, amended: after resetToBackgroundPhase from the elements phase the
\* canvas has the wide size, 800 x 500, in image mode and the size of the
\* poster, 400 x 600, in color and gradient mode.
C35_SizeByModeAfterRevert ==
    RevertedFromElements =>
        /\ cm.workflowPhase = "background"
        /\ cm.backgroundMode = "image" =>
               /\ cm.canvasWidth = Px(imageModeWidth)
               /\ cm.canvasHeight = Px(imageModeHeight)
        /\ cm.backgroundMode \in {"color", "gradient"} =>
               /\ cm.canvasWidth = Px(posterModeWidth)
               /\ cm.canvasHeight = Px(posterModeHeight)

\* the background was confirmed in gradient mode and changed again: the
\* canvas has the size of the poster
C35_Witness ==
    /\ RevertedFromElements
    /\ cm.backgroundMode = "gradient"
    /\ cm.canvasWidth = Px(posterModeWidth)
    /\ cm.canvasHeight = Px(posterModeHeight)

---------------------------------------------------------------------------
(* C36: no frame in color and gradient mode *)

\* C36: whenever the background mode is color or gradient there is no frame
\* image, no selection overlay, no mask rectangle and no FrameDisplayInfo.
C36_NoFrameOutsideImageMode ==
    cm.backgroundMode \in {"color", "gradient"} =>
        /\ cm.frameImage = 0
        /\ cm.selectionOverlay = 0
        /\ cm.darkMaskRects = <<>>
        /\ cm.frameDisplayInfo = None

---------------------------------------------------------------------------
(* C37: the frame on display and the current timestamp *)

\* C37: whenever no frame fetch is in flight and a frame is on display in
\* image mode, it is the frame that was fetched for currentTimestamp.
C37_ShownFrameIsCurrent ==
    /\ fetches = EmptyBag
    /\ cm.backgroundMode = "image"
    /\ cm.frameImage # 0
    /\ cm.heap[cm.frameImage].kind = "frame"
    => cm.heap[cm.frameImage].timestamp = cm.currentTimestamp

---------------------------------------------------------------------------
(* C38: the overlay after a frame load *)

\* the objects of the scene that are selection overlays
Overlays(s) ==
    {i \in DOMAIN s.objects : /\ s.heap[s.objects[i]].type = "rect"
                              /\ s.heap[s.objects[i]].isOverlay}

\* C38: every completed frame load leaves exactly one overlay, centred on
\* the canvas, whose size is given by the zoom factor chosen before the load;
\* the load does not change the zoom factor and keeps no earlier position.
C38_LoadRecentresOverlay ==
    [][lastOp'[1] = "frameLoaded" =>
        LET o == cm'.heap[cm'.selectionOverlay]
        IN  /\ cm'.selectionOverlay # 0
            /\ Cardinality(Overlays(cm')) = 1
            /\ cm'.overlayZoom = cm.overlayZoom
            /\ o.height = overlayHeightAt(cm.overlayZoom)
            /\ o.width = overlayWidthOf(o.height)
            /\ 2 * o.left = cm'.canvasWidth - o.width
            /\ 2 * o.top = cm'.canvasHeight - o.height]_vars

\* a frame has just been loaded while the zoom factor was not the initial one
C38_Witness ==
    /\ lastOp[1] = "frameLoaded"
    /\ cm.overlayZoom # 100
    /\ cm.selectionOverlay # 0
    /\ 2 * overlay.left = cm.canvasWidth - overlay.width
    /\ overlay.height = overlayHeightAt(cm.overlayZoom)

---------------------------------------------------------------------------
(* C39: deleting the selected element *)

\* the sequence seq without its i-th member
DropAt(seq, i) == [k \in 1..(Len(seq) - 1) |-> IF k < i THEN seq[k] ELSE seq[k + 1]]

\* C39: the editor's delete action removes at most one object, the active
\* one, and only if it is a text or a line; the frame image, the overlay and
\* the mask rectangles stay, nothing happens when no object is active, and
\* afterwards the editor holds neither an active text nor an active line.
C39_DeletesOnlyActiveElement ==
    [][lastOp'[1] = "deleteSelected" =>
        /\ \/ cm'.heap = cm.heap
           \/ /\ cm.active # 0
              /\ IsElement(cm, cm.active)
              /\ cm'.heap = DropAt(cm.heap, cm.active)
        /\ cm.active = 0 => cm'.heap = cm.heap
        /\ (cm'.frameImage = 0) = (cm.frameImage = 0)
        /\ (cm'.selectionOverlay = 0) = (cm.selectionOverlay = 0)
        /\ Len(cm'.darkMaskRects) = Len(cm.darkMaskRects)
        /\ Cardinality(Overlays(cm')) = Cardinality(Overlays(cm))
        /\ cm'.activeText = 0
        /\ cm'.activeLine = 0]_vars

\* the active text has just been deleted from a canvas with frame, overlay
\* and mask, all of which are still there
C39_Witness ==
    /\ lastOp = <<"deleteSelected", "textbox">>
    /\ Elements(cm) = <<>>
    /\ cm.frameImage # 0
    /\ cm.selectionOverlay # 0
    /\ Len(cm.darkMaskRects) = 4
    /\ cm.active = 0

---------------------------------------------------------------------------
(* C40: selecting a video *)

\* C40: a selection whose info fetch succeeds clears the elements, hands the
\* video to the engine, resets the timestamp to 0 and reports no error; one
\* whose info fetch fails leaves the selected video and the engine as they
\* were and reports an error.
C40_SelectVideoResetsAndLoads ==
    [][lastOp'[1] = "selectVideo" =>
        IF lastOp'[3]
        THEN /\ Elements(cm') = <<>>
             /\ cm'.video = Some(lastOp'[2])
             /\ cm'.currentTimestamp = 0
             /\ app'.selectedVideo = Some(lastOp'[2])
             /\ app'.alert # "Failed to load video information"
        ELSE /\ app'.selectedVideo = app.selectedVideo
             /\ cm' = cm
             /\ app'.alert = "Failed to load video information"]_vars

=============================================================================
